---- MODULE Spec2Model ----
(***************************************************************************)
(* Model of the chirpy authentication and session subsystem:               *)
(*   internal/auth/jwt.go   MakeJWT, ValidateJWT                           *)
(*   internal/auth          GetAPIKey                                      *)
(*   main.go                handleUsers, handleLogin, handleRefresh,       *)
(*                          handleRevoke, handleUpdateUser, handleChirps,  *)
(*                          handleChirpByID, handlePolkaWebhook,           *)
(*                          /admin/reset, middlewareMetricsInc             *)
(* Durations are Go time.Duration values: signed 64-bit nanosecond counts, *)
(* kept here as eight little-endian base-256 limbs in two's complement so  *)
(* that the arithmetic wraps exactly as int64 does.                        *)
(***************************************************************************)
EXTENDS Integers, Sequences, FiniteSets, TLC

VARIABLES now, ticks, users, refresh_tokens, reqs, resp, jwtIn, jwtTok, jwtRes,
          chirps, platform, fileserverHits, fresh, keyIn, keyRes

vars == <<now, ticks, users, refresh_tokens, reqs, resp, jwtIn, jwtTok, jwtRes,
          chirps, platform, fileserverHits, fresh, keyIn, keyRes>>

\* the chirps table, cfg.platform and cfg.fileserverHits
apiVars == <<chirps, platform, fileserverHits>>

\* the input and the result of a GetAPIKey call
keyVars == <<keyIn, keyRes>>

serverVars == <<users, refresh_tokens, reqs, resp, apiVars, fresh, keyVars>>

jwtVars == <<jwtIn, jwtTok, jwtRes>>

----------------------------------------------------------------------------
(* int64 arithmetic (Go int / time.Duration on a 64-bit build)             *)

\* The eight limbs of a value, built eagerly as a tuple.
Mk64(F(_)) == <<F(1), F(2), F(3), F(4), F(5), F(6), F(7), F(8)>>

RECURSIVE Digit(_, _)
Digit(n, i) == IF i = 1 THEN n % 256 ELSE Digit(n \div 256, i - 1)

RECURSIVE AddCarry(_, _, _)
AddCarry(a, b, i) ==
    IF i = 1 THEN 0
    ELSE (a[i - 1] + b[i - 1] + AddCarry(a, b, i - 1)) \div 256

Add64(a, b) ==
    LET limb(i) == (a[i] + b[i] + AddCarry(a, b, i)) % 256 IN Mk64(limb)

Nat64(n) == LET limb(i) == Digit(n, i) IN Mk64(limb)

Neg64(a) == LET limb(i) == 255 - a[i] IN Add64(Mk64(limb), Nat64(1))

I64(n) == IF n >= 0 THEN Nat64(n) ELSE Neg64(Nat64(-n))

RECURSIVE ColSum(_, _, _, _)
ColSum(a, b, k, i) ==
    IF i > k THEN 0 ELSE a[i] * b[k + 1 - i] + ColSum(a, b, k, i + 1)

RECURSIVE MulCarry(_, _, _)
MulCarry(a, b, k) ==
    IF k = 1 THEN 0
    ELSE (ColSum(a, b, k - 1, 1) + MulCarry(a, b, k - 1)) \div 256

Mul64(a, b) ==
    LET limb(k) == (ColSum(a, b, k, 1) + MulCarry(a, b, k)) % 256 IN Mk64(limb)

IsNeg64(a) == a[8] >= 128

RECURSIVE ULess(_, _, _)
ULess(a, b, i) ==
    IF i = 0 THEN FALSE
    ELSE IF a[i] # b[i] THEN a[i] < b[i]
    ELSE ULess(a, b, i - 1)

Less64(a, b) ==
    IF IsNeg64(a) # IsNeg64(b) THEN IsNeg64(a) ELSE ULess(a, b, 8)

RECURSIVE DivRem(_, _, _)
DivRem(a, m, i) ==
    IF i = 9 THEN 0 ELSE (DivRem(a, m, i + 1) * 256 + a[i]) % m

UDivSmall(a, m) ==
    LET limb(i) == (DivRem(a, m, i + 1) * 256 + a[i]) \div m IN Mk64(limb)

Abs64(a) == IF IsNeg64(a) THEN Neg64(a) ELSE a

Sub64(a, b) == Add64(a, Neg64(b))

ToInt(a) ==
    IF IsNeg64(a)
    THEN -(Neg64(a)[1] + 256 * (Neg64(a)[2] + 256 * (Neg64(a)[3] + 256 * Neg64(a)[4])))
    ELSE a[1] + 256 * (a[2] + 256 * (a[3] + 256 * a[4]))

----------------------------------------------------------------------------
(* time.Duration constants and time.Time                                   *)

NanosPerSecond == 1000000000

Second == Nat64(NanosPerSecond)

Hour == Mul64(Nat64(3600), Second)

\* d / 1e9 as Go computes it: the quotient truncated toward zero.
DurSeconds(d) ==
    LET q == UDivSmall(UDivSmall(UDivSmall(Abs64(d), 1000), 1000), 1000)
    IN  IF IsNeg64(d) THEN Neg64(q) ELSE q

\* d % 1e9 as Go computes it: the remainder carries the sign of d.
DurNanos(d) == ToInt(Sub64(d, Mul64(DurSeconds(d), Second)))

\* A time.Time is [sec, nsec]; sec is an int64 count of seconds.
Time(s, ns) == [sec |-> I64(s), nsec |-> ns]

TimeAdd(t, d) ==
    LET n == t.nsec + DurNanos(d)
    IN  IF n >= NanosPerSecond
        THEN [sec |-> Add64(Add64(t.sec, DurSeconds(d)), I64(1)), nsec |-> n - NanosPerSecond]
        ELSE IF n < 0
        THEN [sec |-> Add64(Add64(t.sec, DurSeconds(d)), I64(-1)), nsec |-> n + NanosPerSecond]
        ELSE [sec |-> Add64(t.sec, DurSeconds(d)), nsec |-> n]

TimeBefore(t, u) ==
    Less64(t.sec, u.sec) \/ (t.sec = u.sec /\ t.nsec < u.nsec)

\* time.Now() called once after each of the waits, starting at t: the
\* readings, in the order of the calls
RECURSIVE ClockReads(_, _)
ClockReads(t, waits) ==
    IF waits = <<>>
    THEN <<>>
    ELSE CHOOSE reads \in
             {<<r>> \o ClockReads(r, Tail(waits)) :
                 r \in {IF Head(waits) = Nat64(0) THEN t
                        ELSE TimeAdd(t, Head(waits))}} : TRUE

\* the number of the waits in which the clock moved
Waited(waits) == Cardinality({i \in DOMAIN waits : waits[i] # Nat64(0)})

Minute == Mul64(Nat64(60), Second)

HalfSecond == Nat64(500000000)

SixtyDays == Mul64(Nat64(60 * 24), Hour)

ThirtyDays == Mul64(Nat64(30 * 24), Hour)

----------------------------------------------------------------------------
(* Bounds and input domains                                                *)

MaxTicks == 3

MaxUsers == 2

MaxTokens == 1

MaxChirps == 1

MaxHits == 1

UUIDs == 1..MaxUsers

\* the identifiers of chirp rows, drawn from the same generator as UUIDs
ChirpUUIDs == (MaxUsers + 1)..(MaxUsers + MaxChirps)

NilUUID == 0

\* values of the PLATFORM environment variable
Platforms == {"dev", "prod"}

Secrets == {"right-secret", "wrong-secret"}

\* how far the clock moves in one step, for the server and for the JWT runs
ServerSteps == {ThirtyDays}

TTLs == {Neg64(Minute), Nat64(0), Nat64(1), Minute, Hour}

Emails == {"a@x.com", "b@x.com"}

Passwords == {"right", "wrong"}

Salts == {"salt"}

Workers == {"w1"}

\* the DELETE requests for a chirp that are served at a time
Deleters == {"d1", "d2"}

RefreshTokenPool == {"rt" \o ToString(i) : i \in 1..MaxTokens}

\* values of expires_in_seconds a login body can carry (Go int, 64 bit)
BigInt(millions, units) ==
    Add64(Mul64(Nat64(millions), Nat64(1000000)), Nat64(units))

ExpiresInSecondsValues ==
    {I64(-1), I64(0), I64(60), I64(3600), I64(7200),
     BigInt(9223, 372037), BigInt(18446, 744074)}

\* login bodies; ExpiresInSeconds is a *int: <<>> is nil, <<v>> points to v
LoginBodies ==
    [Email : Emails, Password : Passwords, ExpiresInSeconds : {<<>>, <<I64(60)>>}]

\* registration bodies for the session runs and for the login runs
RegisterBodies == [Email : Emails, Password : {"right"}]

\* Authorization header values, split at single spaces; <<"">> is no header
AuthHeaders ==
    {<<"">>, <<"Basic", "rt1">>}
        \cup {<<"Bearer", t>> : t \in RefreshTokenPool \cup {"rt-unknown"}}

----------------------------------------------------------------------------
(* uuid.UUID.String and uuid.Parse                                         *)

UUIDString(u) == "uuid-" \o ToString(u)

UUIDParse(s) ==
    IF \E u \in UUIDs \cup ChirpUUIDs : UUIDString(u) = s
    THEN [id |-> CHOOSE u \in UUIDs \cup ChirpUUIDs : UUIDString(u) = s,
          err |-> "nil"]
    ELSE [id |-> NilUUID, err |-> "invalid UUID"]

----------------------------------------------------------------------------
(* golang-jwt: HS256 signing, parsing and claim validation                 *)

\* jwt.NewNumericDate truncates to whole seconds.
NewNumericDate(t) == [sec |-> t.sec, nsec |-> 0]

\* a NumericDate as it is written into the payload: whole seconds
NumericDateString(d) == ToString(d.sec)

\* header.payload, the text the signature covers
SigningString(claims) ==
    "HS256.JWT.iss=" \o claims.Issuer
        \o ",sub=" \o claims.Subject
        \o ",exp=" \o NumericDateString(claims.ExpiresAt)
        \o ",iat=" \o NumericDateString(claims.IssuedAt)

\* HMAC-SHA256 as an ideal MAC: equal tags only for equal key and text.
HS256Sign(signingString, key) == "HS256(" \o key \o ")" \o signingString

HS256Verify(signingString, sig, key) == sig = HS256Sign(signingString, key)

SignedString(claims, key) ==
    [claims |-> claims, sig |-> HS256Sign(SigningString(claims), key)]

\* the bytes of a token string, as used when a token string is cast to a key
TokenBytes(tokenString) ==
    SigningString(tokenString.claims) \o "." \o tokenString.sig

\* Validator.Validate on RegisteredClaims, with no option set: exp against
\* the clock, iat not at all.  The error wraps the two kinds it Is.
ValidateClaims(claims, t) ==
    IF ~TimeBefore(t, claims.ExpiresAt)
    THEN "ErrTokenInvalidClaims: ErrTokenExpired"
    ELSE "nil"

\* Parser.ParseWithClaims: signature first, then the claims.
ParseWithClaims(tokenString, key, t) ==
    IF ~HS256Verify(SigningString(tokenString.claims), tokenString.sig, key)
    THEN [Valid |-> FALSE,
          err |-> "ErrTokenSignatureInvalid: ErrSignatureInvalid"]
    ELSE IF ValidateClaims(tokenString.claims, t) # "nil"
    THEN [Valid |-> FALSE, err |-> ValidateClaims(tokenString.claims, t)]
    ELSE [Valid |-> TRUE, err |-> "nil"]

----------------------------------------------------------------------------
(* internal/auth/jwt.go                                                    *)

\* reads is what the two calls of time.Now() return, the first for
\* IssuedAt and the second for ExpiresAt
MakeJWT(userID, tokenSecret, expiresIn, reads) ==
    SignedString([Issuer    |-> "chirpy",
                  IssuedAt  |-> NewNumericDate(reads[1]),
                  ExpiresAt |-> NewNumericDate(TimeAdd(reads[2], expiresIn)),
                  Subject   |-> UUIDString(userID)],
                 tokenSecret)

\* the key function handed to ParseWithClaims
Keyfunc(tokenString, tokenSecret) == TokenBytes(tokenString)

ValidateJWT(tokenString, tokenSecret, t) ==
    LET key    == Keyfunc(tokenString, tokenSecret)
        token  == ParseWithClaims(tokenString, key, t)
        parsed == UUIDParse(tokenString.claims.Subject)
    IN  IF token.err # "nil"
        THEN [userID |-> NilUUID, err |-> token.err, key |-> key]
        ELSE IF ~token.Valid
        THEN [userID |-> NilUUID, err |-> "ErrTokenInvalidClaims", key |-> key]
        ELSE IF parsed.err # "nil"
        THEN [userID |-> NilUUID, err |-> parsed.err, key |-> key]
        ELSE [userID |-> parsed.id, err |-> "nil", key |-> key]

\* the tokens whose compact serialisations requests carry: the access
\* tokens a login at the start issues
PresentedJWTs ==
    {MakeJWT(u, "right-secret", Hour, <<Time(0, 0), Time(0, 0)>>) : u \in UUIDs}

\* Parser.ParseUnverified: the token a string decodes to, <<>> when the
\* string is not the serialisation of a token
DecodeJWT(str) ==
    IF \E tok \in PresentedJWTs : TokenBytes(tok) = str
    THEN <<CHOOSE tok \in PresentedJWTs : TokenBytes(tok) = str>>
    ELSE <<>>

\* ValidateJWT on the string taken from the Authorization header
ValidateBearer(str, tokenSecret, t) ==
    IF DecodeJWT(str) = <<>>
    THEN [userID |-> NilUUID, err |-> "ErrTokenMalformed", key |-> str]
    ELSE ValidateJWT(DecodeJWT(str)[1], tokenSecret, t)

----------------------------------------------------------------------------
(* internal/auth: password hashing, bearer extraction, refresh tokens      *)

Digest(salt, password) == "H(" \o salt \o "," \o password \o ")"

HashPassword(password, salt) == [salt |-> salt, digest |-> Digest(salt, password)]

CheckPasswordHash(password, hash) == hash.digest = Digest(hash.salt, password)

\* a fresh random token string: never equal to one drawn before, also not
\* to one whose row has since been deleted; drawn counts the earlier draws
MakeRefreshToken(drawn) == "rt" \o ToString(drawn + 1)

GetBearerToken(header) ==
    IF header = <<"">>
    THEN [token |-> "", err |-> "MissingCredential"]
    ELSE IF Len(header) # 2 \/ header[1] # "Bearer" \/ header[2] = ""
    THEN [token |-> "", err |-> "MalformedCredential"]
    ELSE [token |-> header[2], err |-> "nil"]

----------------------------------------------------------------------------
(* internal/auth: GetAPIKey.  A header value is a Go string, kept here as  *)
(* the sequence of its characters; headers is <<>> when the request has no *)
(* Authorization header and <<value>> when it has one.                     *)

\* unicode.IsSpace on the characters used here
WhiteSpace == {" ", "\t"}

\* http.Header.Get: the value of the header, "" when there is none
HeaderGet(headers) == IF headers = <<>> THEN <<>> ELSE headers[1]

RECURSIVE SplitInto(_, _, _, _)
SplitInto(str, sep, part, parts) ==
    IF str = <<>> THEN Append(parts, part)
    ELSE IF Head(str) = sep
    THEN SplitInto(Tail(str), sep, <<>>, Append(parts, part))
    ELSE SplitInto(Tail(str), sep, Append(part, Head(str)), parts)

\* strings.Split(str, sep) for a one-character separator
Split(str, sep) == SplitInto(str, sep, <<>>, <<>>)

RECURSIVE TrimLeft(_)
TrimLeft(str) ==
    IF str # <<>> /\ Head(str) \in WhiteSpace THEN TrimLeft(Tail(str)) ELSE str

RECURSIVE TrimRight(_)
TrimRight(str) ==
    IF str # <<>> /\ str[Len(str)] \in WhiteSpace
    THEN TrimRight(SubSeq(str, 1, Len(str) - 1))
    ELSE str

\* strings.TrimSpace
TrimSpace(str) == TrimRight(TrimLeft(str))

\* the scheme word of an API-key credential
ApiKeyScheme == <<"A", "p", "i", "K", "e", "y">>

\* GetAPIKey accepting a credential followed by further words
GetAPIKeyLoose(headers) ==
    LET authHeader == HeaderGet(headers)
        parts      == Split(authHeader, " ")
    IN  IF authHeader = <<>>
        THEN [key |-> <<>>, err |-> "missing authorization header"]
        ELSE IF Len(parts) < 2 \/ parts[1] # ApiKeyScheme
        THEN [key |-> <<>>, err |-> "invalid authorization header format"]
        ELSE [key |-> TrimSpace(parts[2]), err |-> "nil"]

GetAPIKey(headers) ==
    LET authHeader == HeaderGet(headers)
        parts      == Split(authHeader, " ")
    IN  IF authHeader = <<>>
        THEN [key |-> <<>>, err |-> "missing authorization header"]
        ELSE IF Len(parts) # 2 \/ parts[1] # ApiKeyScheme
        THEN [key |-> <<>>, err |-> "invalid authorization header format"]
        ELSE [key |-> TrimSpace(parts[2]), err |-> "nil"]

----------------------------------------------------------------------------
(* internal/database: the users and refresh_tokens tables                  *)

NullTime == [Valid |-> FALSE, Time |-> Time(0, 0)]

HasUser(db, email) == \E u \in db : u.email = email

\* SELECT id, email, created_at, updated_at, hashed_password
GetUserByEmail(db, email) ==
    LET u == CHOOSE u \in db : u.email = email
    IN  [id |-> u.id, email |-> u.email, hashed_password |-> u.hashed_password]

HasRefreshToken(rts, token) == \E r \in rts : r.token = token

GetRefreshToken(rts, token) == CHOOSE r \in rts : r.token = token

\* the owner of a token, whatever its revoked or expired state
HasUserFromRefreshToken(db, rts, token) ==
    \E r \in rts : r.token = token /\ \E u \in db : u.id = r.user_id

GetUserFromRefreshToken(db, rts, token) ==
    CHOOSE u \in db : u.id = GetRefreshToken(rts, token).user_id

CreateRefreshToken(rts, token, userID, expiresAt, t) ==
    rts \cup {[token      |-> token,
               user_id    |-> userID,
               created_at |-> t,
               updated_at |-> t,
               expires_at |-> expiresAt,
               revoked_at |-> NullTime]}

RevokeRefreshToken(rts, token, revokedAt, updatedAt) ==
    {IF r.token = token
     THEN [r EXCEPT !.revoked_at = revokedAt, !.updated_at = updatedAt]
     ELSE r : r \in rts}

\* DELETE FROM users
DeleteAllUsers(db) == {}

\* ON DELETE CASCADE: the rows whose user is still there
OnDeleteCascade(rows, db) == {r \in rows : \E u \in db : u.id = r.user_id}

HasUserID(db, id) == \E u \in db : u.id = id

\* RETURNING id, email, created_at, updated_at
GetUserByID(db, id) ==
    LET u == CHOOSE u \in db : u.id = id
    IN  [id |-> u.id, email |-> u.email]

\* UPDATE users SET email, hashed_password WHERE id: no row, or an email
\* another row holds already, is an error
UpdateUserFails(db, id, email) ==
    \/ ~HasUserID(db, id)
    \/ \E u \in db : u.id # id /\ u.email = email

UpdateUser(db, id, email, hashedPassword) ==
    {IF u.id = id
     THEN [u EXCEPT !.email = email, !.hashed_password = hashedPassword]
     ELSE u : u \in db}

UpgradeUserToChirpyRed(db, id) ==
    {IF u.id = id THEN [u EXCEPT !.is_chirpy_red = TRUE] ELSE u : u \in db}

\* the chirps table
HasChirp(cs, id) == \E c \in cs : c.id = id

GetChirp(cs, id) == CHOOSE c \in cs : c.id = id

CreateChirp(cs, id, body, userID) ==
    cs \cup {[id |-> id, body |-> body, user_id |-> userID]}

DeleteChirp(cs, id) == {c \in cs : c.id # id}

----------------------------------------------------------------------------
(* main.go: responses                                                      *)

respondWithJSON(code, payload) == [status |-> code, body |-> payload]

respondWithError(code, msg) == respondWithJSON(code, [error |-> msg])

WriteHeader(code) == [status |-> code, body |-> [empty |-> TRUE]]

\* what a caller sees of a response
Visible(r) == [status |-> r.status, body |-> r.body]

----------------------------------------------------------------------------
(* main.go: handleLogin                                                    *)

\* the access-token lifetime chosen from expires_in_seconds
LoginExpires(ExpiresInSeconds) ==
    IF ExpiresInSeconds # <<>> /\ Less64(Mul64(ExpiresInSeconds[1], Second), Hour)
    THEN Mul64(ExpiresInSeconds[1], Second)
    ELSE Hour

\* LoginLookupFailed telling the caller that the email is unknown
LoginLookupFailedLeaky == respondWithError(404, "user not found")

LoginLookupFailed == respondWithError(401, "incorrect email or password")

LoginPasswordMismatch == respondWithError(401, "incorrect email or password")

\* LoginOK handing the whole row read to the caller
LoginOKWithHash(user, red, token, refreshToken) ==
    respondWithJSON(200, [id              |-> user.id,
                          email           |-> user.email,
                          hashed_password |-> user.hashed_password.digest,
                          is_chirpy_red   |-> red,
                          token           |-> token,
                          refresh_token   |-> refreshToken])

\* the created_at and updated_at of the users row, which no property here
\* reads, are left out of the row and of the responses; red is what
\* user.IsChirpyRed holds, a field the query of GetUserByEmail does not fill
LoginOK(user, red, token, refreshToken) ==
    respondWithJSON(200, [id            |-> user.id,
                          email         |-> user.email,
                          is_chirpy_red |-> red,
                          token         |-> token,
                          refresh_token |-> refreshToken])

\* cfg.jwtSecret, read from JWT_SECRET at start-up
JWTSecret == "right-secret"

\* a worker that serves no request
Idle == [pc |-> "idle"]

\* LoginPasswordRejected letting every password through
LoginPasswordRejectedNever(password, user) == FALSE

\* err != nil || !match on the result of CheckPasswordHash
LoginPasswordRejected(password, user) ==
    ~CheckPasswordHash(password, user.hashed_password)

\* RefreshTokenExpiresAt with a lifetime of thirty days
RefreshTokenExpiresAtShort(t) == TimeAdd(t, ThirtyDays)

\* ExpiresAt of the row stored at login: time.Now().Add(60 * 24 * time.Hour)
RefreshTokenExpiresAt(t) == TimeAdd(t, SixtyDays)

\* failing names the call of the request that fails for a reason outside the
\* program (the body does not decode, the database is down, the random
\* source fails), "none" when no call does; resp keeps the body of the
\* request, the check that turned it away and the call that failed.
\* handleLogin goes to the database twice, and other requests are served in
\* between: the first step ends with the row of the user read and the
\* password checked.
HandleLoginLookup(w, body, failing) ==
    /\ reqs[w].pc = "idle"
    /\ IF failing = "Decode"
       THEN /\ resp' = [op |-> "login", req |-> body, cause |-> "body",
                        failing |-> failing,
                        out |-> respondWithError(400, "invalid request body")]
            /\ UNCHANGED reqs
       ELSE IF failing = "GetUserByEmail" \/ ~HasUser(users, body.Email)
       THEN /\ resp' = [op |-> "login", req |-> body, cause |-> "unknown email",
                        failing |-> IF failing = "GetUserByEmail"
                                    THEN failing ELSE "none",
                        out |-> LoginLookupFailed]
            /\ UNCHANGED reqs
       ELSE IF LoginPasswordRejected(body.Password,
                                     GetUserByEmail(users, body.Email))
       THEN /\ resp' = [op |-> "login", req |-> body, cause |-> "wrong password",
                        failing |-> "none",
                        out |-> LoginPasswordMismatch]
            /\ UNCHANGED reqs
       ELSE /\ fresh.token < MaxTokens
            /\ reqs' = [reqs EXCEPT ![w] =
                          [pc |-> "login", body |-> body,
                           user |-> GetUserByEmail(users, body.Email)]]
            /\ UNCHANGED resp
    /\ UNCHANGED <<now, ticks, users, refresh_tokens, fresh, jwtVars, apiVars,
                   keyVars>>

\* The second step makes the tokens and stores the row of the refresh
\* token.  The clock is read four times: twice in MakeJWT, once for
\* ExpiresAt and once by the database for created_at and updated_at; clock
\* in resp keeps the readings.  The insert fails when the users row is gone
\* (user_id REFERENCES users).
HandleLoginIssue(w, waits, failing) ==
    /\ reqs[w].pc = "login"
    /\ ticks + Waited(waits) <= MaxTicks
    /\ \E reads \in {ClockReads(now, waits)} :
           LET r            == reqs[w]
               expires      == LoginExpires(r.body.ExpiresInSeconds)
               token        == MakeJWT(r.user.id, JWTSecret, expires,
                                       <<reads[1], reads[2]>>)
               refreshToken == MakeRefreshToken(fresh.token)
           IN
           /\ IF failing = "MakeJWT"
              THEN /\ resp' = [op |-> "login", req |-> r.body, cause |-> "token",
                               failing |-> failing,
                               out |-> respondWithError(500, "could not create token")]
                   /\ UNCHANGED <<refresh_tokens, fresh>>
              ELSE IF failing = "MakeRefreshToken"
              THEN /\ resp' = [op |-> "login", req |-> r.body, cause |-> "token",
                               failing |-> failing,
                               out |-> respondWithError(500,
                                                        "failed to create refresh token")]
                   /\ UNCHANGED <<refresh_tokens, fresh>>
              ELSE IF failing = "CreateRefreshToken" \/ ~HasUserID(users, r.user.id)
              THEN /\ resp' = [op |-> "login", req |-> r.body, cause |-> "store",
                               failing |-> IF failing = "CreateRefreshToken"
                                           THEN failing ELSE "none",
                               out |-> respondWithError(500,
                                                        "failed to store refresh token")]
                   /\ UNCHANGED <<refresh_tokens, fresh>>
              ELSE /\ refresh_tokens' =
                          CreateRefreshToken(refresh_tokens, refreshToken, r.user.id,
                                             RefreshTokenExpiresAt(reads[3]), reads[4])
                   /\ fresh' = [fresh EXCEPT !.token = @ + 1]
                   /\ \E red \in BOOLEAN :
                         resp' = [op |-> "login", req |-> r.body, cause |-> "none",
                                  failing |-> "none", clock |-> reads,
                                  out |-> LoginOK(r.user, red, token, refreshToken)]
           /\ reqs' = [reqs EXCEPT ![w] = Idle]
           /\ now' = reads[4]
           /\ ticks' = ticks + Waited(waits)
           /\ UNCHANGED <<users, jwtVars, apiVars, keyVars>>

----------------------------------------------------------------------------
(* main.go: handleUsers (POST)                                             *)

\* gen_random_uuid(): an identifier never drawn before for a user row
NewUUID(drawn) == drawn + 1

\* RegisteredHash hashing the email in place of the password
RegisteredHashOfEmail(body, salt) == HashPassword(body.Email, salt)

\* the hash stored for a new user: auth.HashPassword(req.Password)
RegisteredHash(body, salt) == HashPassword(body.Password, salt)

\* resp keeps the body of the request
Register(body, salt) ==
    /\ IF HasUser(users, body.Email)
       THEN /\ resp' = [op |-> "register", req |-> body,
                        out |-> respondWithError(500, "failed to create user")]
            /\ UNCHANGED <<users, fresh>>
       ELSE /\ fresh.uuid < MaxUsers
            /\ users' = users \cup
                   {[id |-> NewUUID(fresh.uuid), email |-> body.Email,
                     hashed_password |-> RegisteredHash(body, salt),
                     is_chirpy_red |-> FALSE]}
            /\ fresh' = [fresh EXCEPT !.uuid = @ + 1]
            /\ resp' = [op |-> "register", req |-> body,
                        out |-> respondWithJSON(201,
                                   [id |-> NewUUID(fresh.uuid), email |-> body.Email,
                                    is_chirpy_red |-> FALSE])]
    /\ UNCHANGED <<now, ticks, refresh_tokens, reqs, jwtVars, apiVars, keyVars>>

----------------------------------------------------------------------------
(* main.go: handleRefresh, in two steps: the owner lookup, then the row    *)
(* lookup with the usability decision and the minting of the token.        *)

\* the rejection test applied to the row read by GetRefreshToken
RefreshRejected(err, tokenRow, t) ==
    err \/ (~tokenRow.revoked_at.Valid /\ TimeBefore(tokenRow.expires_at, t))

HandleRefreshOwner(w, header, failing) ==
    LET bearer == GetBearerToken(header) IN
    /\ reqs[w].pc = "idle"
    /\ IF bearer.err # "nil"
       THEN /\ resp' = [op |-> "refresh", failing |-> "none",
                        out |-> respondWithError(401, "missing refresh token")]
            /\ UNCHANGED reqs
       ELSE IF \/ failing = "GetUserFromRefreshToken"
               \/ ~HasUserFromRefreshToken(users, refresh_tokens, bearer.token)
       THEN /\ resp' = [op |-> "refresh",
                        failing |-> IF failing = "GetUserFromRefreshToken"
                                    THEN failing ELSE "none",
                        out |-> respondWithError(401, "invalid refresh token")]
            /\ UNCHANGED reqs
       ELSE /\ reqs' = [reqs EXCEPT ![w] =
                          [pc |-> "owner",
                           refreshToken |-> bearer.token,
                           user |-> GetUserFromRefreshToken(users, refresh_tokens,
                                                            bearer.token),
                           afterRevoke |->
                               GetRefreshToken(refresh_tokens,
                                               bearer.token).revoked_at.Valid]]
            /\ UNCHANGED resp
    /\ UNCHANGED <<now, ticks, users, refresh_tokens, jwtVars, apiVars, fresh, keyVars>>

\* the lifetime of the access token a refresh mints
RefreshExpires == Hour

\* Variant: a successful refresh also revokes the refresh token it was given.
RefreshFinishRotating(w, waits, failing) ==
    /\ reqs[w].pc = "owner"
    /\ ticks + Waited(waits) <= MaxTicks
    /\ \E reads \in {ClockReads(now, waits)} :
           LET r     == reqs[w]
               err   == \/ failing = "GetRefreshToken"
                        \/ ~HasRefreshToken(refresh_tokens, r.refreshToken)
               row   == IF err THEN <<>>
                        ELSE <<GetRefreshToken(refresh_tokens, r.refreshToken)>>
           IN
           /\ resp' = [op |-> "refresh",
                       failing |-> IF failing = "GetRefreshToken"
                                   THEN failing
                                   ELSE IF err \/ RefreshRejected(err, row[1], reads[1])
                                   THEN "none"
                                   ELSE IF failing = "MakeJWT" THEN failing ELSE "none",
                       clock |-> reads,
                       out |-> IF err \/ RefreshRejected(err, row[1], reads[1])
                               THEN respondWithError(401, "refresh token expired or revoked")
                               ELSE IF failing = "MakeJWT"
                               THEN respondWithError(500, "could not create access token")
                               ELSE respondWithJSON(200,
                                       [token |-> MakeJWT(r.user.id, JWTSecret,
                                                          RefreshExpires,
                                                          <<reads[2], reads[3]>>)])]
           /\ refresh_tokens' =
                  IF err \/ RefreshRejected(err, row[1], reads[1]) \/ failing = "MakeJWT"
                  THEN refresh_tokens
                  ELSE RevokeRefreshToken(refresh_tokens, r.refreshToken,
                                          [Valid |-> TRUE, Time |-> reads[1]], reads[1])
           /\ reqs' = [reqs EXCEPT ![w] = Idle]
           /\ now' = reads[3]
           /\ ticks' = ticks + Waited(waits)
           /\ UNCHANGED <<users, jwtVars, apiVars, fresh, keyVars>>

\* The clock is read three times: for the expiry test and twice in MakeJWT;
\* clock in resp keeps the readings.
HandleRefreshRow(w, waits, failing) ==
    /\ reqs[w].pc = "owner"
    /\ ticks + Waited(waits) <= MaxTicks
    /\ \E reads \in {ClockReads(now, waits)} :
           LET r     == reqs[w]
               err   == \/ failing = "GetRefreshToken"
                        \/ ~HasRefreshToken(refresh_tokens, r.refreshToken)
               row   == IF err THEN <<>>
                        ELSE <<GetRefreshToken(refresh_tokens, r.refreshToken)>>
           IN
           /\ resp' = [op |-> "refresh",
                       failing |-> IF failing = "GetRefreshToken"
                                   THEN failing
                                   ELSE IF err \/ RefreshRejected(err, row[1], reads[1])
                                   THEN "none"
                                   ELSE IF failing = "MakeJWT" THEN failing ELSE "none",
                       clock |-> reads,
                       out |-> IF err \/ RefreshRejected(err, row[1], reads[1])
                               THEN respondWithError(401, "refresh token expired or revoked")
                               ELSE IF failing = "MakeJWT"
                               THEN respondWithError(500, "could not create access token")
                               ELSE respondWithJSON(200,
                                       [token |-> MakeJWT(r.user.id, JWTSecret,
                                                          RefreshExpires,
                                                          <<reads[2], reads[3]>>)])]
           /\ reqs' = [reqs EXCEPT ![w] = Idle]
           /\ now' = reads[3]
           /\ ticks' = ticks + Waited(waits)
           /\ UNCHANGED <<users, refresh_tokens, jwtVars, apiVars, fresh, keyVars>>

----------------------------------------------------------------------------
(* main.go: handleRevoke                                                   *)

\* the answer to a revoke that went through: 204, no body
RevokeDone == WriteHeader(204)

\* Variant: a token that is already revoked is refused with 500.
RevokeOnce(header, waits, failing) ==
    /\ ticks + Waited(waits) <= MaxTicks
    /\ \E reads \in {ClockReads(now, waits)} :
           LET bearer == GetBearerToken(header)
               known  == bearer.err = "nil" /\ HasRefreshToken(refresh_tokens, bearer.token)
               was    == known /\ GetRefreshToken(refresh_tokens,
                                                  bearer.token).revoked_at.Valid
           IN
           /\ IF bearer.err # "nil"
              THEN /\ resp' = [op |-> "revoke", req |-> header, known |-> known,
                               already |-> was, failing |-> "none",
                               out |-> respondWithError(401, "missing refresh token")]
                   /\ UNCHANGED refresh_tokens
              ELSE IF failing = "RevokeRefreshToken" \/ was
              THEN /\ resp' = [op |-> "revoke", req |-> header, known |-> known,
                               already |-> was, failing |-> failing,
                               out |-> respondWithError(500, "failed to revoke token")]
                   /\ UNCHANGED refresh_tokens
              ELSE /\ refresh_tokens' =
                          RevokeRefreshToken(refresh_tokens, bearer.token,
                                             [Valid |-> TRUE, Time |-> reads[1]],
                                             reads[2])
                   /\ resp' = [op |-> "revoke", req |-> header, known |-> known,
                               already |-> was, failing |-> "none",
                               out |-> RevokeDone]
           /\ now' = reads[2]
           /\ ticks' = ticks + Waited(waits)
           /\ UNCHANGED <<users, reqs, jwtVars, apiVars, fresh, keyVars>>

\* Variant: an unknown token is refused with 500, so the answer tells whether
\* the token exists.
RevokeLeaky(header, waits, failing) ==
    /\ ticks + Waited(waits) <= MaxTicks
    /\ \E reads \in {ClockReads(now, waits)} :
           LET bearer == GetBearerToken(header)
               known  == bearer.err = "nil" /\ HasRefreshToken(refresh_tokens, bearer.token)
               was    == known /\ GetRefreshToken(refresh_tokens,
                                                  bearer.token).revoked_at.Valid
           IN
           /\ IF bearer.err # "nil"
              THEN /\ resp' = [op |-> "revoke", req |-> header, known |-> known,
                               already |-> was, failing |-> "none",
                               out |-> respondWithError(401, "missing refresh token")]
                   /\ UNCHANGED refresh_tokens
              ELSE IF failing = "RevokeRefreshToken" \/ ~known
              THEN /\ resp' = [op |-> "revoke", req |-> header, known |-> known,
                               already |-> was, failing |-> failing,
                               out |-> respondWithError(500, "failed to revoke token")]
                   /\ UNCHANGED refresh_tokens
              ELSE /\ refresh_tokens' =
                          RevokeRefreshToken(refresh_tokens, bearer.token,
                                             [Valid |-> TRUE, Time |-> reads[1]],
                                             reads[2])
                   /\ resp' = [op |-> "revoke", req |-> header, known |-> known,
                               already |-> was, failing |-> "none",
                               out |-> RevokeDone]
           /\ now' = reads[2]
           /\ ticks' = ticks + Waited(waits)
           /\ UNCHANGED <<users, reqs, jwtVars, apiVars, fresh, keyVars>>

\* Variant: the UPDATE has no WHERE clause and revokes every stored token.
RevokeEverySession(header, waits, failing) ==
    /\ ticks + Waited(waits) <= MaxTicks
    /\ \E reads \in {ClockReads(now, waits)} :
           LET bearer == GetBearerToken(header)
               known  == bearer.err = "nil" /\ HasRefreshToken(refresh_tokens, bearer.token)
               was    == known /\ GetRefreshToken(refresh_tokens,
                                                  bearer.token).revoked_at.Valid
           IN
           /\ IF bearer.err # "nil"
              THEN /\ resp' = [op |-> "revoke", req |-> header, known |-> known,
                               already |-> was, failing |-> "none",
                               out |-> respondWithError(401, "missing refresh token")]
                   /\ UNCHANGED refresh_tokens
              ELSE IF failing = "RevokeRefreshToken"
              THEN /\ resp' = [op |-> "revoke", req |-> header, known |-> known,
                               already |-> was, failing |-> failing,
                               out |-> respondWithError(500, "failed to revoke token")]
                   /\ UNCHANGED refresh_tokens
              ELSE /\ refresh_tokens' =
                          {[r EXCEPT !.revoked_at = [Valid |-> TRUE, Time |-> reads[1]],
                                     !.updated_at = reads[2]] : r \in refresh_tokens}
                   /\ resp' = [op |-> "revoke", req |-> header, known |-> known,
                               already |-> was, failing |-> "none",
                               out |-> RevokeDone]
           /\ now' = reads[2]
           /\ ticks' = ticks + Waited(waits)
           /\ UNCHANGED <<users, reqs, jwtVars, apiVars, fresh, keyVars>>

\* resp keeps the header of the request, whether the presented token was
\* known and was revoked already when the request arrived, and the call
\* that failed.  The clock is read twice, for RevokedAt and for UpdatedAt.
HandleRevoke(header, waits, failing) ==
    /\ ticks + Waited(waits) <= MaxTicks
    /\ \E reads \in {ClockReads(now, waits)} :
           LET bearer == GetBearerToken(header)
               known  == bearer.err = "nil" /\ HasRefreshToken(refresh_tokens, bearer.token)
               was    == known /\ GetRefreshToken(refresh_tokens,
                                                  bearer.token).revoked_at.Valid
           IN
           /\ IF bearer.err # "nil"
              THEN /\ resp' = [op |-> "revoke", req |-> header, known |-> known,
                               already |-> was, failing |-> "none",
                               out |-> respondWithError(401, "missing refresh token")]
                   /\ UNCHANGED refresh_tokens
              ELSE IF failing = "RevokeRefreshToken"
              THEN /\ resp' = [op |-> "revoke", req |-> header, known |-> known,
                               already |-> was, failing |-> failing,
                               out |-> respondWithError(500, "failed to revoke token")]
                   /\ UNCHANGED refresh_tokens
              ELSE /\ refresh_tokens' =
                          RevokeRefreshToken(refresh_tokens, bearer.token,
                                             [Valid |-> TRUE, Time |-> reads[1]],
                                             reads[2])
                   /\ resp' = [op |-> "revoke", req |-> header, known |-> known,
                               already |-> was, failing |-> "none",
                               out |-> RevokeDone]
           /\ now' = reads[2]
           /\ ticks' = ticks + Waited(waits)
           /\ UNCHANGED <<users, reqs, jwtVars, apiVars, fresh, keyVars>>

----------------------------------------------------------------------------
(* main.go: handleUpdateUser                                               *)

\* red is what user.IsChirpyRed holds, a field the RETURNING clause of
\* UpdateUser does not fill
UpdateUserOK(user, red) ==
    respondWithJSON(200, [id            |-> user.id,
                          email         |-> user.email,
                          is_chirpy_red |-> red])

\* resp keeps the header and the body of the request and the check that
\* turned it away
HandleUpdateUser(header, body, salt) ==
    LET bearer   == GetBearerToken(header)
        verified == ValidateBearer(bearer.token, JWTSecret, now)
        userID   == verified.userID
    IN
    /\ IF bearer.err # "nil"
       THEN /\ resp' = [op |-> "update user", req |-> header, body |-> body,
                        cause |-> "bearer",
                        out |-> respondWithError(401, "missing or invalid token")]
            /\ UNCHANGED users
       ELSE IF verified.err # "nil"
       THEN /\ resp' = [op |-> "update user", req |-> header, body |-> body,
                        cause |-> "jwt",
                        out |-> respondWithError(401, "invalid token")]
            /\ UNCHANGED users
       ELSE IF UpdateUserFails(users, userID, body.Email)
       THEN /\ resp' = [op |-> "update user", req |-> header, body |-> body,
                        cause |-> "store",
                        out |-> respondWithError(500, "failed to update user")]
            /\ UNCHANGED users
       ELSE /\ users' = UpdateUser(users, userID, body.Email,
                                   HashPassword(body.Password, salt))
            /\ \E red \in BOOLEAN :
                  resp' = [op |-> "update user", req |-> header, body |-> body,
                           cause |-> "none",
                           out |-> UpdateUserOK(GetUserByID(users', userID),
                                                red)]
    /\ UNCHANGED <<now, ticks, refresh_tokens, reqs, jwtVars, apiVars, fresh,
                   keyVars>>

----------------------------------------------------------------------------
(* main.go: handleChirps (POST).  A chirp body is the sequence of its      *)
(* space-separated words.                                                  *)

RECURSIVE ByteLen(_)
\* len(req.Body): the words and the spaces between them
ByteLen(words) ==
    IF words = <<>> THEN 0
    ELSE IF Len(words) = 1 THEN Len(words[1])
    ELSE Len(Head(words)) + 1 + ByteLen(Tail(words))

\* strings.ToLower on the words used here
ToLower(word) ==
    IF word = "Kerfuffle" THEN "kerfuffle"
    ELSE IF word = "SHARBERT" THEN "sharbert"
    ELSE word

Profanity == {"kerfuffle", "sharbert", "fornax"}

Cleaned(words) ==
    [i \in 1..Len(words) |->
        IF ToLower(words[i]) \in Profanity THEN "****" ELSE words[i]]

\* gen_random_uuid() for a chirp row
NewChirpUUID(drawn) == MaxUsers + drawn + 1

ChirpCreated(chirp) ==
    respondWithJSON(201, [id |-> chirp.id, body |-> chirp.body,
                          user_id |-> chirp.user_id])

HandleCreateChirp(header, body) ==
    LET bearer   == GetBearerToken(header)
        verified == ValidateBearer(bearer.token, JWTSecret, now)
        userID   == verified.userID
        chirpID  == NewChirpUUID(fresh.chirp)
    IN
    /\ IF bearer.err # "nil"
       THEN /\ resp' = [op |-> "create chirp", req |-> header, cause |-> "bearer",
                        out |-> respondWithError(401,
                                                 "missing or invalid auth token")]
            /\ UNCHANGED <<chirps, fresh>>
       ELSE IF verified.err # "nil"
       THEN /\ resp' = [op |-> "create chirp", req |-> header, cause |-> "jwt",
                        out |-> respondWithError(401, "invalid token")]
            /\ UNCHANGED <<chirps, fresh>>
       ELSE IF ByteLen(body) > 140
       THEN /\ resp' = [op |-> "create chirp", req |-> header, cause |-> "body",
                        out |-> respondWithError(400, "chirp is too long")]
            /\ UNCHANGED <<chirps, fresh>>
       ELSE IF ~HasUserID(users, userID)
       THEN /\ resp' = [op |-> "create chirp", req |-> header, cause |-> "store",
                        out |-> respondWithError(500, "failed to create chirp")]
            /\ UNCHANGED <<chirps, fresh>>
       ELSE /\ fresh.chirp < MaxChirps
            /\ chirps' = CreateChirp(chirps, chirpID, Cleaned(body), userID)
            /\ fresh' = [fresh EXCEPT !.chirp = @ + 1]
            /\ resp' = [op |-> "create chirp", req |-> header, cause |-> "none",
                        out |-> ChirpCreated(GetChirp(chirps', chirpID))]
    /\ UNCHANGED <<now, ticks, users, refresh_tokens, reqs, jwtVars, platform,
                   fileserverHits, keyVars>>

----------------------------------------------------------------------------
(* main.go: handleChirpByID (DELETE)                                       *)

\* HandleDeleteChirpLookup going on when ValidateJWT has returned an error
HandleDeleteChirpUnverified(w, header, idStr) ==
    LET parsed   == UUIDParse(idStr)
        bearer   == GetBearerToken(header)
        verified == ValidateBearer(bearer.token, JWTSecret, now)
        userID   == verified.userID
    IN
    /\ reqs[w].pc = "idle"
    /\ IF parsed.err # "nil"
       THEN /\ resp' = [op |-> "delete chirp", req |-> header, id |-> idStr,
                        cause |-> "id",
                        out |-> respondWithError(400, "invalid chirp id")]
            /\ UNCHANGED reqs
       ELSE IF bearer.err # "nil"
       THEN /\ resp' = [op |-> "delete chirp", req |-> header, id |-> idStr,
                        cause |-> "bearer",
                        out |-> respondWithError(401, "missing or invalid token")]
            /\ UNCHANGED reqs
       ELSE IF ~HasChirp(chirps, parsed.id)
       THEN /\ resp' = [op |-> "delete chirp", req |-> header, id |-> idStr,
                        cause |-> "missing",
                        out |-> respondWithError(404, "chirp not found")]
            /\ UNCHANGED reqs
       ELSE IF GetChirp(chirps, parsed.id).user_id # userID
       THEN /\ resp' = [op |-> "delete chirp", req |-> header, id |-> idStr,
                        cause |-> "owner",
                        out |-> respondWithError(403, "forbidden")]
            /\ UNCHANGED reqs
       ELSE /\ reqs' = [reqs EXCEPT ![w] = [pc |-> "chirp", header |-> header,
                                            id |-> idStr, chirpID |-> parsed.id]]
            /\ UNCHANGED resp
    /\ UNCHANGED <<now, ticks, users, refresh_tokens, chirps, jwtVars, platform,
                   fileserverHits, fresh, keyVars>>

\* The first part of the handler, up to the owner test on the row GetChirp
\* has returned.  resp keeps the header and the id of the request and the
\* check that turned it away; a request that passes every check waits for
\* DeleteChirp with the chirp ID it has read.
HandleDeleteChirpLookup(w, header, idStr) ==
    LET parsed   == UUIDParse(idStr)
        bearer   == GetBearerToken(header)
        verified == ValidateBearer(bearer.token, JWTSecret, now)
        userID   == verified.userID
    IN
    /\ reqs[w].pc = "idle"
    /\ IF parsed.err # "nil"
       THEN /\ resp' = [op |-> "delete chirp", req |-> header, id |-> idStr,
                        cause |-> "id",
                        out |-> respondWithError(400, "invalid chirp id")]
            /\ UNCHANGED reqs
       ELSE IF bearer.err # "nil"
       THEN /\ resp' = [op |-> "delete chirp", req |-> header, id |-> idStr,
                        cause |-> "bearer",
                        out |-> respondWithError(401, "missing or invalid token")]
            /\ UNCHANGED reqs
       ELSE IF verified.err # "nil"
       THEN /\ resp' = [op |-> "delete chirp", req |-> header, id |-> idStr,
                        cause |-> "jwt",
                        out |-> respondWithError(401, "invalid token")]
            /\ UNCHANGED reqs
       ELSE IF ~HasChirp(chirps, parsed.id)
       THEN /\ resp' = [op |-> "delete chirp", req |-> header, id |-> idStr,
                        cause |-> "missing",
                        out |-> respondWithError(404, "chirp not found")]
            /\ UNCHANGED reqs
       ELSE IF GetChirp(chirps, parsed.id).user_id # userID
       THEN /\ resp' = [op |-> "delete chirp", req |-> header, id |-> idStr,
                        cause |-> "owner",
                        out |-> respondWithError(403, "forbidden")]
            /\ UNCHANGED reqs
       ELSE /\ reqs' = [reqs EXCEPT ![w] = [pc |-> "chirp", header |-> header,
                                            id |-> idStr, chirpID |-> parsed.id]]
            /\ UNCHANGED resp
    /\ UNCHANGED <<now, ticks, users, refresh_tokens, chirps, jwtVars, platform,
                   fileserverHits, fresh, keyVars>>

\* The second part: DeleteChirp, a DELETE by ID that returns no error when
\* the row is gone, and the 204.
HandleDeleteChirpDelete(w) ==
    /\ reqs[w].pc = "chirp"
    /\ chirps' = DeleteChirp(chirps, reqs[w].chirpID)
    /\ resp' = [op |-> "delete chirp", req |-> reqs[w].header, id |-> reqs[w].id,
                cause |-> "none",
                out |-> WriteHeader(204)]
    /\ reqs' = [reqs EXCEPT ![w] = Idle]
    /\ UNCHANGED <<now, ticks, users, refresh_tokens, jwtVars, platform,
                   fileserverHits, fresh, keyVars>>

\* The next step of the request DELETE /api/chirps/{idStr} that w serves: the
\* request arrives at an idle w, or goes on after GetChirp has returned.
HandleDeleteChirp(w, header, idStr) ==
    IF reqs[w].pc = "idle"
    THEN HandleDeleteChirpLookup(w, header, idStr)
    ELSE /\ reqs[w].pc = "chirp"
         /\ reqs[w].header = header
         /\ reqs[w].id = idStr
         /\ HandleDeleteChirpDelete(w)

----------------------------------------------------------------------------
(* main.go: handlePolkaWebhook                                             *)

\* cfg.polkaKey, read from POLKA_KEY at start-up
PolkaKey == <<"k">>

\* WebhookUnauthorized without the comparison with the configured key
WebhookUnauthorizedOnError(apiKey) == apiKey.err # "nil"

\* err != nil || apiKey != cfg.polkaKey on the result of GetAPIKey
WebhookUnauthorized(apiKey) == apiKey.err # "nil" \/ apiKey.key # PolkaKey

\* resp keeps the method, the headers and the payload of the request and
\* the call that failed
HandlePolkaWebhook(method, headers, payload, failing) ==
    LET apiKey == GetAPIKey(headers)
        req    == [op |-> "webhook", method |-> method, headers |-> headers,
                   payload |-> payload]
    IN
    /\ IF method # "POST"
       THEN /\ resp' = req @@ [failing |-> "none", out |-> WriteHeader(405)]
            /\ UNCHANGED users
       ELSE IF WebhookUnauthorized(apiKey)
       THEN /\ resp' = req @@ [failing |-> "none", out |-> WriteHeader(401)]
            /\ UNCHANGED users
       ELSE IF failing = "Decode"
       THEN /\ resp' = req @@ [failing |-> failing, out |-> WriteHeader(400)]
            /\ UNCHANGED users
       ELSE IF payload.Event # "user.upgraded"
       THEN /\ resp' = req @@ [failing |-> "none", out |-> WriteHeader(204)]
            /\ UNCHANGED users
       ELSE IF failing = "UpgradeUserToChirpyRed"
       THEN /\ resp' = req @@ [failing |-> failing, out |-> WriteHeader(500)]
            /\ UNCHANGED users
       ELSE IF ~HasUserID(users, payload.UserID)
       THEN /\ resp' = req @@ [failing |-> "none", out |-> WriteHeader(404)]
            /\ UNCHANGED users
       ELSE /\ users' = UpgradeUserToChirpyRed(users, payload.UserID)
            /\ resp' = req @@ [failing |-> "none", out |-> WriteHeader(204)]
    /\ UNCHANGED <<now, ticks, refresh_tokens, reqs, jwtVars, apiVars, fresh,
                   keyVars>>

----------------------------------------------------------------------------
(* main.go: /admin/reset and middlewareMetricsInc                          *)

\* ResetForbidden with the platform test left out
ResetForbiddenNever(p) == FALSE

ResetForbidden(p) == p # "dev"

\* HandleAdminReset going on after the delete has failed, as the handler
\* registered for POST /admin/reset in an earlier version of main does
HandleAdminResetFallThrough(failing) ==
    /\ reqs["admin"].pc = "idle"
    /\ IF ResetForbidden(platform)
       THEN /\ resp' = [op |-> "reset", failing |-> "none",
                        out |-> respondWithError(403, "forbidden")]
            /\ UNCHANGED <<users, refresh_tokens, chirps, fileserverHits, reqs>>
       ELSE IF failing = "DeleteAllUsers"
       THEN /\ resp' = [op |-> "reset", failing |-> failing,
                        out |-> respondWithError(500, "failed to delete users")]
            /\ fileserverHits' = 0
            /\ UNCHANGED <<users, refresh_tokens, chirps, reqs>>
       ELSE /\ users' = DeleteAllUsers(users)
            /\ refresh_tokens' = OnDeleteCascade(refresh_tokens, users')
            /\ chirps' = OnDeleteCascade(chirps, users')
            /\ reqs' = [reqs EXCEPT !["admin"] = [pc |-> "reset"]]
            /\ UNCHANGED <<resp, fileserverHits>>
    /\ UNCHANGED <<now, ticks, platform, fresh, jwtVars, keyVars>>

\* The handler waits for the database in DeleteAllUsers and resets the
\* counter after the call has returned; other requests are served in
\* between.  The first step ends when the users are deleted.
HandleAdminReset(failing) ==
    /\ reqs["admin"].pc = "idle"
    /\ IF ResetForbidden(platform)
       THEN /\ resp' = [op |-> "reset", failing |-> "none",
                        out |-> respondWithError(403, "forbidden")]
            /\ UNCHANGED <<users, refresh_tokens, chirps, reqs>>
       ELSE IF failing = "DeleteAllUsers"
       THEN /\ resp' = [op |-> "reset", failing |-> failing,
                        out |-> respondWithError(500, "failed to delete users")]
            /\ UNCHANGED <<users, refresh_tokens, chirps, reqs>>
       ELSE /\ users' = DeleteAllUsers(users)
            /\ refresh_tokens' = OnDeleteCascade(refresh_tokens, users')
            /\ chirps' = OnDeleteCascade(chirps, users')
            /\ reqs' = [reqs EXCEPT !["admin"] = [pc |-> "reset"]]
            /\ UNCHANGED resp
    /\ UNCHANGED <<now, ticks, fileserverHits, platform, fresh, jwtVars, keyVars>>

\* the second step: cfg.fileserverHits.Store(0) and the answer
HandleAdminResetStore ==
    /\ reqs["admin"].pc = "reset"
    /\ fileserverHits' = 0
    /\ resp' = [op |-> "reset", failing |-> "none", out |-> WriteHeader(200)]
    /\ reqs' = [reqs EXCEPT !["admin"] = Idle]
    /\ UNCHANGED <<now, ticks, users, refresh_tokens, chirps, platform, fresh,
                   jwtVars, keyVars>>

\* a request under /app/ passes the hit counter on its way to the files
FileServerHit ==
    /\ fileserverHits < MaxHits
    /\ fileserverHits' = fileserverHits + 1
    /\ resp' = [op |-> "app", out |-> WriteHeader(200)]
    /\ UNCHANGED <<now, ticks, users, refresh_tokens, reqs, chirps, platform,
                   fresh, jwtVars, keyVars>>

----------------------------------------------------------------------------
(* The clock                                                               *)

Tick(d) ==
    /\ ticks < MaxTicks
    /\ now' = TimeAdd(now, d)
    /\ ticks' = ticks + 1
    /\ UNCHANGED <<serverVars, jwtVars>>

----------------------------------------------------------------------------
(* The server                                                              *)

\* nothing drawn yet from the random sources
NoneDrawn == [uuid |-> 0, token |-> 0, chirp |-> 0]

InitServer ==
    /\ now = Time(0, 0)
    /\ ticks = 0
    /\ users = {}
    /\ refresh_tokens = {}
    /\ chirps = {}
    /\ platform = "dev"
    /\ fileserverHits = 0
    /\ fresh = NoneDrawn
    /\ reqs = [w \in Workers \cup {"admin"} \cup Deleters |-> Idle]
    /\ resp = [op |-> "none"]

Init ==
    /\ InitServer
    /\ jwtIn = <<>> /\ jwtTok = <<>> /\ jwtRes = <<>>
    /\ keyIn = <<>> /\ keyRes = <<>>

Next ==
    \/ \E body \in RegisterBodies, salt \in Salts : Register(body, salt)
    \/ \E w \in Workers, body \in LoginBodies : HandleLoginLookup(w, body, "none")
    \/ \E w \in Workers : HandleLoginIssue(w, [i \in 1..4 |-> Nat64(0)], "none")
    \/ \E w \in Workers, header \in AuthHeaders : HandleRefreshOwner(w, header, "none")
    \/ \E w \in Workers : HandleRefreshRow(w, [i \in 1..3 |-> Nat64(0)], "none")
    \/ \E header \in AuthHeaders : HandleRevoke(header, [i \in 1..2 |-> Nat64(0)], "none")
    \/ \E d \in ServerSteps : Tick(d)

Spec == Init /\ [][Next]_vars

\* Registration and login alone, over every expires_in_seconds value; time
\* passes before the two clock reads of MakeJWT.
NextLogin ==
    \/ \E body \in RegisterBodies, salt \in Salts : Register(body, salt)
    \/ \E w \in Workers,
            body \in [Email : Emails, Password : {"right"},
                      ExpiresInSeconds :
                          {<<>>} \cup {<<v>> : v \in ExpiresInSecondsValues}] :
          HandleLoginLookup(w, body, "none")
    \/ \E w \in Workers, a \in {Nat64(0), HalfSecond},
            b \in {Nat64(0), HalfSecond} :
          HandleLoginIssue(w, <<a, b, Nat64(0), Nat64(0)>>, "none")

SpecLogin == Init /\ [][NextLogin]_vars

----------------------------------------------------------------------------
(* MakeJWT and ValidateJWT on their own: a token is made from the inputs   *)
(* drawn at the start and validated under either secret as time passes.    *)

\* madeAt is the clock when MakeJWT returns
JWTMake(waits) ==
    /\ jwtTok = <<>>
    /\ ticks + Waited(waits) <= MaxTicks
    /\ \E reads \in {ClockReads(now, waits)} :
           /\ jwtTok' = <<[token |-> MakeJWT(jwtIn[1].userID, jwtIn[1].secret,
                                             jwtIn[1].ttl, reads),
                           madeAt |-> reads[2]]>>
           /\ now' = reads[2]
           /\ ticks' = ticks + Waited(waits)
           /\ UNCHANGED <<serverVars, jwtIn, jwtRes>>

JWTValidate(secret) ==
    /\ jwtTok # <<>>
    /\ jwtRes' = <<[secret |-> secret, at |-> now,
                    res |-> ValidateJWT(jwtTok[1].token, secret, now)]>>
    /\ UNCHANGED <<now, ticks, serverVars, jwtIn, jwtTok>>

InitJWT ==
    /\ InitServer
    /\ jwtIn \in {<<i>> : i \in [userID : UUIDs, secret : Secrets, ttl : TTLs]}
    /\ jwtTok = <<>>
    /\ jwtRes = <<>>
    /\ keyIn = <<>>
    /\ keyRes = <<>>

NextJWT ==
    \/ \E waits \in [1..2 -> {Nat64(0), HalfSecond}] : JWTMake(waits)
    \/ \E secret \in Secrets : JWTValidate(secret)
    \/ \E d \in {HalfSecond, Hour} : Tick(d)

SpecJWT == InitJWT /\ [][NextJWT]_vars

----------------------------------------------------------------------------
(* Further runs of the server.  The database outlives the process: at      *)
(* start-up it is empty, or holds a user and a chirp written by an earlier *)
(* run.                                                                    *)

\* Authorization headers of the protected requests
AccessHeaders ==
    {<<"">>, <<"Bearer", "rt1">>}
        \cup {<<"Bearer", TokenBytes(tok)>> : tok \in PresentedJWTs}

\* no header, and the access token of the first user
SessionAccessHeaders ==
    {<<"">>,
     <<"Bearer", TokenBytes(MakeJWT(1, "right-secret", Hour,
                                    <<Time(0, 0), Time(0, 0)>>))>>}

\* login bodies with the right password and no expires_in_seconds
SessionLogins ==
    [Email : {"a@x.com"}, Password : {"right"}, ExpiresInSeconds : {<<>>}]

UpdateBodies == [Email : {"b@x.com"}, Password : {"new"}]

WebhookHeaders ==
    {<<>>, <<ApiKeyScheme \o <<" ">> \o PolkaKey>>,
     <<ApiKeyScheme \o <<" ", "x">>>>}

WebhookPayloads ==
    [Event : {"user.upgraded"}, UserID : UUIDs]
        \cup [Event : {"user.other"}, UserID : {1}]

\* what the database holds when the process starts
StoredAtStart ==
    {[users |-> {}, chirps |-> {}, fresh |-> NoneDrawn],
     [users  |-> {[id |-> 1, email |-> "a@x.com",
                   hashed_password |-> HashPassword("right", "salt"),
                   is_chirpy_red |-> FALSE]},
      chirps |-> {[id |-> MaxUsers + 1, body |-> <<"hello">>, user_id |-> 1]},
      fresh  |-> [uuid |-> 1, token |-> 0, chirp |-> 1]]}

InitAPI ==
    /\ now = Time(0, 0)
    /\ ticks = 0
    /\ \E db \in StoredAtStart :
          /\ users = db.users
          /\ chirps = db.chirps
          /\ fresh = db.fresh
    /\ refresh_tokens = {}
    /\ platform \in Platforms
    /\ fileserverHits = 0
    /\ reqs = [w \in Workers \cup {"admin"} \cup Deleters |-> Idle]
    /\ resp = [op |-> "none"]
    /\ jwtIn = <<>> /\ jwtTok = <<>> /\ jwtRes = <<>>
    /\ keyIn = <<>> /\ keyRes = <<>>

\* The protected operations, with the operations that change what the
\* store holds about the users and their refresh tokens.  A chirp request
\* carries a body of words, and the last element of its path is a chirp ID
\* or not a UUID.
NextAPI ==
    \/ \E body \in RegisterBodies, salt \in Salts : Register(body, salt)
    \/ \E w \in Workers, body \in SessionLogins : HandleLoginLookup(w, body, "none")
    \/ \E w \in Workers : HandleLoginIssue(w, [i \in 1..4 |-> Nat64(0)], "none")
    \/ \E header \in AuthHeaders : HandleRevoke(header, [i \in 1..2 |-> Nat64(0)], "none")
    \/ \E header \in AccessHeaders, body \in UpdateBodies, salt \in Salts :
          HandleUpdateUser(header, body, salt)
    \/ \E header \in AccessHeaders,
            body \in {<<"Kerfuffle", "you">>, [i \in 1..36 |-> "abc"]} :
          HandleCreateChirp(header, body)
    \/ \E w \in Deleters, header \in AccessHeaders,
            idStr \in {UUIDString(c) : c \in ChirpUUIDs} \cup {"not-a-uuid"} :
          HandleDeleteChirp(w, header, idStr)
    \/ HandleAdminReset("none")
    \/ HandleAdminResetStore

SpecAPI == InitAPI /\ [][NextAPI]_vars

\* The operations that write to the users and refresh_tokens tables, with
\* refresh, the webhook and the reset, on a database that starts empty; no
\* time passes.
InitStore ==
    /\ now = Time(0, 0)
    /\ ticks = 0
    /\ users = {}
    /\ refresh_tokens = {}
    /\ chirps = {}
    /\ fresh = NoneDrawn
    /\ platform \in Platforms
    /\ fileserverHits = 0
    /\ reqs = [w \in Workers \cup {"admin"} \cup Deleters |-> Idle]
    /\ resp = [op |-> "none"]
    /\ jwtIn = <<>> /\ jwtTok = <<>> /\ jwtRes = <<>>
    /\ keyIn = <<>> /\ keyRes = <<>>

\* Logins are made with the right password; webhook requests come without
\* a key and with the key, for the first user.
NextStore ==
    \/ \E body \in RegisterBodies, salt \in Salts : Register(body, salt)
    \/ \E w \in Workers,
            body \in [Email : Emails, Password : {"right"},
                      ExpiresInSeconds : {<<>>}] :
          HandleLoginLookup(w, body, "none")
    \/ \E w \in Workers : HandleLoginIssue(w, [i \in 1..4 |-> Nat64(0)], "none")
    \/ \E w \in Workers, header \in AuthHeaders : HandleRefreshOwner(w, header, "none")
    \/ \E w \in Workers : HandleRefreshRow(w, [i \in 1..3 |-> Nat64(0)], "none")
    \/ \E header \in AuthHeaders : HandleRevoke(header, [i \in 1..2 |-> Nat64(0)], "none")
    \/ \E header \in SessionAccessHeaders, body \in UpdateBodies,
            salt \in Salts :
          HandleUpdateUser(header, body, salt)
    \/ \E headers \in {<<>>, <<ApiKeyScheme \o <<" ">> \o PolkaKey>>},
            payload \in [Event : {"user.upgraded"}, UserID : {1}] :
          HandlePolkaWebhook("POST", headers, payload, "none")
    \/ HandleAdminReset("none")
    \/ HandleAdminResetStore

SpecStore == InitStore /\ [][NextStore]_vars

\* The session operations as time passes: logins with the right password,
\* refresh, revoke and user update on a database that starts empty.
NextSession ==
    \/ \E body \in [Email : {"a@x.com"}, Password : {"right"}],
            salt \in Salts :
          Register(body, salt)
    \/ \E w \in Workers, body \in SessionLogins : HandleLoginLookup(w, body, "none")
    \/ \E w \in Workers : HandleLoginIssue(w, [i \in 1..4 |-> Nat64(0)], "none")
    \/ \E w \in Workers, header \in AuthHeaders : HandleRefreshOwner(w, header, "none")
    \/ \E w \in Workers : HandleRefreshRow(w, [i \in 1..3 |-> Nat64(0)], "none")
    \/ \E header \in AuthHeaders : HandleRevoke(header, [i \in 1..2 |-> Nat64(0)], "none")
    \/ \E header \in SessionAccessHeaders, body \in UpdateBodies,
            salt \in Salts :
          HandleUpdateUser(header, body, salt)
    \/ \E d \in ServerSteps : Tick(d)

SpecSession == Init /\ [][NextSession]_vars

\* The operations that write users rows, with webhook requests of every
\* method and with calls that fail.  The requests carry no header, the key,
\* another key, the key under the Bearer scheme, or the ApiKey scheme with
\* nothing after it.
NextWebhook ==
    \/ \E body \in RegisterBodies, salt \in Salts : Register(body, salt)
    \/ \E header \in SessionAccessHeaders, body \in UpdateBodies,
            salt \in Salts :
          HandleUpdateUser(header, body, salt)
    \/ \E method \in {"POST", "GET"},
            headers \in WebhookHeaders
                \cup {<<<<"B", "e", "a", "r", "e", "r", " ">> \o PolkaKey>>,
                      <<ApiKeyScheme \o <<" ">>>>},
            payload \in WebhookPayloads,
            failing \in {"none", "Decode", "UpgradeUserToChirpyRed"} :
          HandlePolkaWebhook(method, headers, payload, failing)
    \/ HandleAdminReset("none")
    \/ HandleAdminResetStore

SpecWebhook == Init /\ [][NextWebhook]_vars

\* Registrations, logins and user updates with every password.
PasswordsTried == Passwords \cup {p.Password : p \in UpdateBodies}

NextPassword ==
    \/ \E body \in [Email : Emails, Password : Passwords], salt \in Salts : Register(body, salt)
    \/ \E w \in Workers,
            body \in [Email : Emails, Password : PasswordsTried,
                      ExpiresInSeconds : {<<>>}] :
          HandleLoginLookup(w, body, "none")
    \/ \E w \in Workers : HandleLoginIssue(w, [i \in 1..4 |-> Nat64(0)], "none")
    \/ \E header \in AccessHeaders, body \in UpdateBodies, salt \in Salts :
          HandleUpdateUser(header, body, salt)

SpecPassword == Init /\ [][NextPassword]_vars

\* The sessions of two users registered by an earlier run, one of which
\* logged in thirty days before the start: logins that ask for an access
\* token of sixty seconds, with refreshes or with revokes, as time passes.
StoredToken == "rt-stored"

SessionsAtStart ==
    [users |-> {[id |-> 1, email |-> "a@x.com",
                 hashed_password |-> HashPassword("right", "salt"),
                 is_chirpy_red |-> FALSE],
                [id |-> 2, email |-> "b@x.com",
                 hashed_password |-> HashPassword("right", "salt"),
                 is_chirpy_red |-> FALSE]},
     refresh_tokens |->
         CreateRefreshToken({}, StoredToken, 1,
                            RefreshTokenExpiresAt(TimeAdd(Time(0, 0),
                                                          Neg64(ThirtyDays))),
                            TimeAdd(Time(0, 0), Neg64(ThirtyDays))),
     fresh |-> [uuid |-> 2, token |-> 0, chirp |-> 0]]

TokenLogins ==
    [Email : Emails, Password : {"right"}, ExpiresInSeconds : {<<I64(60)>>}]

InitTokens ==
    /\ now = Time(0, 0)
    /\ ticks = 0
    /\ users = SessionsAtStart.users
    /\ refresh_tokens = SessionsAtStart.refresh_tokens
    /\ fresh = SessionsAtStart.fresh
    /\ chirps = {}
    /\ platform = "dev"
    /\ fileserverHits = 0
    /\ reqs = [w \in Workers \cup {"admin"} \cup Deleters |-> Idle]
    /\ resp = [op |-> "none"]
    /\ jwtIn = <<>> /\ jwtTok = <<>> /\ jwtRes = <<>>
    /\ keyIn = <<>> /\ keyRes = <<>>

\* logins and refreshes
NextTokens ==
    \/ \E w \in Workers, body \in TokenLogins : HandleLoginLookup(w, body, "none")
    \/ \E w \in Workers : HandleLoginIssue(w, [i \in 1..4 |-> Nat64(0)], "none")
    \/ \E w \in Workers, header \in AuthHeaders \cup {<<"Bearer", StoredToken>>} :
          HandleRefreshOwner(w, header, "none")
    \/ \E w \in Workers, waits \in [1..3 -> {Nat64(0), HalfSecond}] :
          HandleRefreshRow(w, waits, "none")
    \/ \E d \in ServerSteps : Tick(d)

SpecTokens == InitTokens /\ [][NextTokens]_vars

\* logins and revokes; time passes between the clock reads of a revoke
NextRevoke ==
    \/ \E w \in Workers,
            body \in [Email : {"a@x.com"}, Password : {"right"},
                      ExpiresInSeconds : {<<>>}] :
          HandleLoginLookup(w, body, "none")
    \/ \E w \in Workers : HandleLoginIssue(w, [i \in 1..4 |-> Nat64(0)], "none")
    \/ \E header \in {<<"">>, <<"Bearer", "rt1">>, <<"Bearer", StoredToken>>,
                        <<"Bearer", "rt-unknown">>},
            waits \in [1..2 -> {Nat64(0), HalfSecond}] :
          HandleRevoke(header, waits, "none")

SpecRevoke == InitTokens /\ [][NextRevoke]_vars

\* logins, refreshes, revokes and user updates; time passes before the
\* clock reads of a login that fill the row of the refresh token
NextExpiry ==
    \/ \E w \in Workers, body \in TokenLogins : HandleLoginLookup(w, body, "none")
    \/ \E w \in Workers, a \in {Nat64(0), HalfSecond},
            b \in {Nat64(0), HalfSecond} :
          HandleLoginIssue(w, <<Nat64(0), Nat64(0), a, b>>, "none")
    \/ \E w \in Workers,
            header \in {<<"Bearer", "rt1">>, <<"Bearer", StoredToken>>} :
          HandleRefreshOwner(w, header, "none")
    \/ \E w \in Workers : HandleRefreshRow(w, [i \in 1..3 |-> Nat64(0)], "none")
    \/ \E header \in {<<"Bearer", "rt1">>, <<"Bearer", StoredToken>>} :
          HandleRevoke(header, [i \in 1..2 |-> Nat64(0)], "none")
    \/ \E header \in SessionAccessHeaders, body \in UpdateBodies,
            salt \in Salts :
          HandleUpdateUser(header, body, salt)

SpecExpiry == InitTokens /\ [][NextExpiry]_vars

\* The session operations and the reset when calls outside the program
\* can fail: the database is down, the body does not decode, the random
\* source or the signing fails.  No time passes.  Each handler draws the
\* call that fails from the calls it makes; the logins are those of the
\* first user, with the right and with a wrong password.
NextFaults ==
    \/ \E body \in RegisterBodies, salt \in Salts : Register(body, salt)
    \/ \E w \in Workers,
            body \in [Email : {"a@x.com"}, Password : Passwords,
                      ExpiresInSeconds : {<<>>}],
            failing \in {"none", "Decode", "GetUserByEmail"} :
          HandleLoginLookup(w, body, failing)
    \/ \E w \in Workers,
            failing \in {"none", "MakeJWT", "MakeRefreshToken",
                         "CreateRefreshToken"} :
          HandleLoginIssue(w, <<Nat64(0), Nat64(0), Nat64(0), Nat64(0)>>,
                           failing)
    \/ \E w \in Workers, header \in AuthHeaders,
            failing \in {"none", "GetUserFromRefreshToken"} :
          HandleRefreshOwner(w, header, failing)
    \/ \E w \in Workers, failing \in {"none", "GetRefreshToken", "MakeJWT"} :
          HandleRefreshRow(w, <<Nat64(0), Nat64(0), Nat64(0)>>, failing)
    \/ \E header \in AuthHeaders,
            failing \in {"none", "RevokeRefreshToken"} :
          HandleRevoke(header, <<Nat64(0), Nat64(0)>>, failing)
    \/ \E failing \in {"none", "DeleteAllUsers"} : HandleAdminReset(failing)
    \/ HandleAdminResetStore
    \/ FileServerHit

SpecFaults == InitStore /\ [][NextFaults]_vars

----------------------------------------------------------------------------
(* GetAPIKey on its own: the headers are drawn at the start, the call is   *)
(* made once.                                                              *)

\* the words header values are built from: scheme words, key tokens with
\* and without surrounding white space, and the empty word
KeyWords ==
    {ApiKeyScheme, <<"a", "p", "i", "k", "e", "y">>,
     <<"B", "e", "a", "r", "e", "r">>,
     <<"k">>, <<"\t", "k">>, <<"k", "\t">>, <<"\t">>, <<>>}

\* one to three words with single spaces between them
HeaderValues ==
    KeyWords
        \cup {a \o <<" ">> \o b : a \in KeyWords, b \in KeyWords}
        \cup {a \o <<" ">> \o b \o <<" ">> \o c :
                  a \in KeyWords, b \in KeyWords, c \in KeyWords}

\* no Authorization header, or one with a value
KeyHeaders == {<<>>} \cup {<<v>> : v \in HeaderValues}

APIKeyCall ==
    /\ keyIn # <<>>
    /\ keyRes = <<>>
    /\ keyRes' = <<GetAPIKey(keyIn[1])>>
    /\ UNCHANGED <<now, ticks, users, refresh_tokens, reqs, resp, apiVars, fresh,
                   jwtVars, keyIn>>

InitAPIKey ==
    /\ InitServer
    /\ jwtIn = <<>> /\ jwtTok = <<>> /\ jwtRes = <<>>
    /\ keyIn \in {<<h>> : h \in KeyHeaders}
    /\ keyRes = <<>>

NextAPIKey == APIKeyCall

SpecAPIKey == InitAPIKey /\ [][NextAPIKey]_vars

----------------------------------------------------------------------------
(* Properties of MakeJWT and ValidateJWT, checked under SpecJWT            *)

JWTValidated == jwtTok # <<>> /\ jwtRes # <<>>

Positive64(d) == Less64(Nat64(0), d)

\* the error kinds a caller treats as "token invalid" (not "token expired")
TokenInvalidKinds ==
    {"ErrTokenSignatureInvalid: ErrSignatureInvalid", "ErrTokenMalformed",
     "ErrTokenInvalidClaims", "invalid UUID"}

\* C1: a token made with ttl > 0 and validated with the same secret at the
\* instant it was made is accepted and yields the user ID it was made for.
C1_RoundTrip ==
    (/\ JWTValidated
     /\ Positive64(jwtIn[1].ttl)
     /\ jwtRes[1].secret = jwtIn[1].secret
     /\ jwtRes[1].at = jwtTok[1].madeAt)
        => (jwtRes[1].res.err = "nil" /\ jwtRes[1].res.userID = jwtIn[1].userID)

\* C2: a token made with one secret and validated with a different one is
\* rejected as invalid, and the signature check is keyed by the secret
\* handed to ValidateJWT.
C2_WrongSecretRejected ==
    (JWTValidated /\ jwtRes[1].secret # jwtIn[1].secret)
        => (/\ jwtRes[1].res.err \in TokenInvalidKinds
            /\ jwtRes[1].res.key = jwtRes[1].secret)

\* C3: a token made with ttl < 0 and validated with the same secret is
\* rejected, and the error is the expiry error, not an invalid-token error.
C3_ExpiredKind ==
    (/\ JWTValidated
     /\ IsNeg64(jwtIn[1].ttl)
     /\ jwtRes[1].secret = jwtIn[1].secret)
        => jwtRes[1].res.err = "ErrTokenInvalidClaims: ErrTokenExpired"

----------------------------------------------------------------------------
(* Properties of refresh and revoke, checked under Spec                    *)

\* worker w answers its refresh request in this step
RefreshAnswers(w) == reqs[w].pc = "owner" /\ reqs'[w].pc = "idle"

\* a refresh request is turned away at the owner lookup in this step
RefreshTurnedAway ==
    /\ resp' # resp
    /\ resp'.op = "refresh"
    /\ \A w \in Workers : reqs'[w] = reqs[w]

Minted == resp'.op = "refresh" /\ resp'.out.status = 200

\* usable iff the row exists, revoked_at is null and t < expires_at
Usable(rts, token, t) ==
    /\ HasRefreshToken(rts, token)
    /\ ~GetRefreshToken(rts, token).revoked_at.Valid
    /\ TimeBefore(t, GetRefreshToken(rts, token).expires_at)

\* C4: a refresh request that presents a token after a revoke of that token
\* has succeeded is never answered with an access token.
C4_RevokedStaysUnusable ==
    [][\A w \in Workers :
          (RefreshAnswers(w) /\ reqs[w].afterRevoke) => ~Minted]_vars

\* C5: refresh mints an access token iff the presented token's row exists,
\* its revoked_at is null and now < expires_at.
C5_MintIffUsable ==
    [][/\ \A w \in Workers :
            RefreshAnswers(w) =>
                (Minted <=> Usable(refresh_tokens, reqs[w].refreshToken, now))
       /\ RefreshTurnedAway => ~Minted]_vars

\* C6: refresh with a token whose expires_at is in the past is answered 401
\* without an access token, revoked or not.
C6_ExpiredRejected ==
    [][\A w \in Workers :
          (/\ RefreshAnswers(w)
           /\ HasRefreshToken(refresh_tokens, reqs[w].refreshToken)
           /\ TimeBefore(GetRefreshToken(refresh_tokens,
                                         reqs[w].refreshToken).expires_at, now))
              => (resp'.out.status = 401 /\ resp'.out.body = [error |->
                       "refresh token expired or revoked"])]_vars

\* C7: a refresh whose read of the token row comes after a revoke has
\* written revoked_at never mints an access token.
C7_ReadAfterRevokeRejected ==
    [][\A w \in Workers :
          (/\ RefreshAnswers(w)
           /\ HasRefreshToken(refresh_tokens, reqs[w].refreshToken)
           /\ GetRefreshToken(refresh_tokens,
                              reqs[w].refreshToken).revoked_at.Valid)
              => ~Minted]_vars

----------------------------------------------------------------------------
(* Properties of the refresh_tokens table, checked under SpecExpiry (C11)  *)
(* and under SpecSession                                                   *)

\* C11: a refresh-token row is created with revoked_at null and expires_at
\* sixty days after the clock reading the login takes to issue it
\* (main.go:276), and no later step changes the expires_at of a row.
C11_ExpiryFixedAtIssuance ==
    [][/\ \A r \in refresh_tokens' :
            (~HasRefreshToken(refresh_tokens, r.token))
                => (/\ ~r.revoked_at.Valid
                    /\ resp'.op = "login"
                    /\ r.expires_at = TimeAdd(resp'.clock[3], SixtyDays)
                    /\ r.created_at = resp'.clock[4])
       /\ \A q \in refresh_tokens : \A r \in refresh_tokens' :
            r.token = q.token => r.expires_at = q.expires_at]_vars

\* a row issued after the start, for which the database read the clock
\* later than the login did, revoked since, expiry untouched
C11_Witness ==
    \E r \in refresh_tokens :
        /\ r.revoked_at.Valid
        /\ TimeBefore(Time(0, 0), r.created_at)
        /\ TimeBefore(r.expires_at, TimeAdd(r.created_at, SixtyDays))
        /\ resp.op = "refresh"

\* a step of a refresh request: its owner lookup or its answer
RefreshStep ==
    \/ \E w \in Workers :
          reqs'[w] # reqs[w] /\ "owner" \in {reqs[w].pc, reqs'[w].pc}
    \/ resp' # resp /\ resp'.op = "refresh"

\* C12: no step of a refresh request, accepted or rejected, changes the
\* refresh_tokens table, and a request that presents an unrevoked,
\* unexpired token is answered with an access token every time.
C12_RefreshLeavesTokensAlone ==
    [][/\ RefreshStep => refresh_tokens' = refresh_tokens
       /\ \A w \in Workers :
            (RefreshAnswers(w) /\ Usable(refresh_tokens, reqs[w].refreshToken, now))
                => Minted]_vars

\* an access token minted thirty days or more after the login, the row of
\* the presented token still as the login wrote it
C12_Witness ==
    /\ resp.op = "refresh"
    /\ resp.out.status = 200
    /\ \E r \in refresh_tokens :
          /\ r.user_id = UUIDParse(resp.out.body.token.claims.Subject).id
          /\ TimeBefore(r.created_at, resp.out.body.token.claims.IssuedAt)
          /\ ~r.revoked_at.Valid
          /\ r.updated_at = r.created_at

\* a revoke request is answered in this step
RevokeStep ==
    /\ resp'.op = "revoke"
    /\ resp' # resp \/ refresh_tokens' # refresh_tokens

\* the row of the token a revoke request presented
RevokedRow(rts, header) == GetRefreshToken(rts, GetBearerToken(header).token)

\* C14: a revoke of a token that is revoked already is answered 204 with
\* no body, as a first revoke is, and leaves the row revoked and the
\* refresh decision on it as it was.
C14_RevokeIdempotent ==
    [][(RevokeStep /\ resp'.already) =>
          (/\ Visible(resp'.out) = [status |-> 204, body |-> [empty |-> TRUE]]
           /\ HasRefreshToken(refresh_tokens', resp'.req[2])
           /\ RevokedRow(refresh_tokens', resp'.req).revoked_at.Valid
           /\ RefreshRejected(FALSE, RevokedRow(refresh_tokens', resp'.req), now)
                 <=> RefreshRejected(FALSE, RevokedRow(refresh_tokens, resp'.req),
                                     now))]_vars

\* a second revoke, thirty days or more after the row was written
C14_Witness ==
    /\ resp.op = "revoke"
    /\ resp.already
    /\ resp.out.status = 204
    /\ HasRefreshToken(refresh_tokens, resp.req[2])
    /\ TimeBefore(RevokedRow(refresh_tokens, resp.req).created_at,
                  RevokedRow(refresh_tokens, resp.req).revoked_at.Time)

\* C15: a revoke with a well-formed bearer credential is answered 204 with
\* no body whether or not a row carries the presented token, and a revoke
\* of an unknown token leaves the table as it was.
C15_RevokeHidesExistence ==
    [][(RevokeStep /\ GetBearerToken(resp'.req).err = "nil") =>
          (/\ Visible(resp'.out) = [status |-> 204, body |-> [empty |-> TRUE]]
           /\ ~resp'.known => refresh_tokens' = refresh_tokens)]_vars

\* an unknown token revoked while the table holds another one
C15_Witness ==
    /\ resp.op = "revoke"
    /\ GetBearerToken(resp.req).err = "nil"
    /\ ~resp.known
    /\ resp.out.status = 204
    /\ refresh_tokens # {}
    /\ \A r \in refresh_tokens : ~r.revoked_at.Valid

----------------------------------------------------------------------------
(* Properties of login, checked under SpecLogin                            *)

LoginSucceeded == resp.op = "login" /\ resp.out.status = 200

AccessClaims == resp.out.body.token.claims

\* C8: the access token of a successful login never expires later than one
\* hour after it was issued, whatever expires_in_seconds was sent.
C8_LoginTTLAtMostHour ==
    LoginSucceeded =>
        ~TimeBefore(TimeAdd(AccessClaims.IssuedAt, Hour), AccessClaims.ExpiresAt)

\* the clock reading MakeJWT adds the lifetime to (jwt.go:14)
AccessIssuedOn == resp.clock[2]

\* the lifetime the policy asks for: min(requested, 1 hour) when a positive
\* value is supplied, 1 hour otherwise
PolicyTTL(ExpiresInSeconds) ==
    IF ExpiresInSeconds # <<>> /\ Positive64(ExpiresInSeconds[1])
    THEN IF Less64(ExpiresInSeconds[1], Nat64(3600))
         THEN Mul64(ExpiresInSeconds[1], Second)
         ELSE Hour
    ELSE Hour

\* C9: the access token of a successful login lives min(requested, 1 hour)
\* when a positive expires_in_seconds is supplied and exactly 1 hour in
\* every other case, a zero or negative value included.  The lifetime is
\* counted from the clock reading MakeJWT adds it to, which leaves the time
\* between the two clock reads of MakeJWT (C8) out of account.
C9_LoginTTLPolicy ==
    LoginSucceeded =>
        AccessClaims.ExpiresAt =
            NewNumericDate(TimeAdd(AccessIssuedOn,
                                   PolicyTTL(resp.req.ExpiresInSeconds)))

\* C31: for every positive expires_in_seconds, those whose product with
\* 10^9 nanoseconds is beyond the 64-bit signed range included, the access
\* token of a successful login lives min(requested seconds, 3600 seconds)
\* and never expires before the clock reading its lifetime is counted from
\* (as for C9).
C31_LoginConversionDoesNotWrap ==
    (/\ LoginSucceeded
     /\ resp.req.ExpiresInSeconds # <<>>
     /\ Positive64(resp.req.ExpiresInSeconds[1]))
        => /\ AccessClaims.ExpiresAt =
                  NewNumericDate(
                      TimeAdd(AccessIssuedOn,
                              IF Less64(resp.req.ExpiresInSeconds[1],
                                        Nat64(3600))
                              THEN Mul64(resp.req.ExpiresInSeconds[1], Second)
                              ELSE Hour))
           /\ ~TimeBefore(AccessClaims.ExpiresAt,
                          NewNumericDate(AccessIssuedOn))

\* C10: a login that fails on an unknown email and a login that fails on a
\* wrong password show the caller the same status and the same body.
C10_LoginFailuresAlike ==
    /\ (resp.op = "login" /\ resp.cause = "unknown email")
          => Visible(resp.out) = Visible(LoginPasswordMismatch)
    /\ (resp.op = "login" /\ resp.cause = "wrong password")
          => Visible(resp.out) = Visible(LoginLookupFailed)

C10_Witness ==
    /\ resp.op = "login"
    /\ resp.cause = "wrong password"
    /\ HasUser(users, resp.req.Email)
    /\ \E e \in Emails : ~HasUser(users, e)

----------------------------------------------------------------------------
(* Properties of the stored tokens, checked under SpecStore                *)

\* row r is still there after the step, with the token, the owner, the
\* creation time and the expiry it had
Kept(r) ==
    \E q \in refresh_tokens' :
        /\ q.token = r.token
        /\ q.user_id = r.user_id
        /\ q.created_at = r.created_at
        /\ q.expires_at = r.expires_at

\* C13 as stated: whatever the step (login, refresh, revoke, user update,
\* webhook, admin reset), every refresh-token row is still there after it
\* with its owner; only revoked_at and updated_at may differ.
C13_TokensNeverDeleted ==
    [][\A r \in refresh_tokens : Kept(r)]_vars

\* C13 as amended: a row stays, with its owner, as long as its owning user
\* does; users are deleted only by the admin reset on the dev platform,
\* which deletes all of them and, with them, all refresh-token rows.
C13_TokensKeptWhileOwnerLives ==
    [][/\ \A r \in refresh_tokens : HasUserID(users', r.user_id) => Kept(r)
       /\ (\E u \in users : ~HasUserID(users', u.id))
             => (/\ platform = "dev"
                 /\ reqs["admin"].pc = "idle"
                 /\ reqs'["admin"].pc = "reset"
                 /\ users' = {}
                 /\ refresh_tokens' = {})]_vars

\* a reset has emptied a database that held a refresh token
C13_Witness ==
    /\ resp.op = "reset"
    /\ resp.out.status = 200
    /\ fresh.token > 0
    /\ users = {}
    /\ refresh_tokens = {}

----------------------------------------------------------------------------
(* Properties of the responses about users, checked under SpecPassword     *)

\* the operations that answer with a view of a users row
UserOps == {"login", "register", "update user"}

\* the fields of the users row a response may carry
ProfileFields == {"id", "email", "is_chirpy_red"}

TokenFields == {"token", "refresh_token"}

\* the fields of a response body that hold a string
TextFields == {"email", "refresh_token", "error"}

\* C21: no response of login, registration or user update carries the
\* password hash: a body that is not an error holds profile fields only,
\* and for login the two tokens as well, and no text in a body is the hash
\* of a stored password.
C21_NoHashInResponses ==
    resp.op \in UserOps =>
        (/\ DOMAIN resp.out.body \subseteq
                  IF resp.out.status >= 400 THEN {"error"}
                  ELSE IF resp.op = "login" THEN ProfileFields \cup TokenFields
                  ELSE ProfileFields
         /\ \A f \in DOMAIN resp.out.body \cap TextFields :
               \A u \in users : resp.out.body[f] # u.hashed_password.digest)

\* a login answered with the profile and the tokens of a user whose row
\* holds a password hash
C21_Witness ==
    /\ resp.op = "login"
    /\ resp.out.status = 200
    /\ DOMAIN resp.out.body = ProfileFields \cup TokenFields
    /\ \E u \in users :
          /\ u.id = resp.out.body.id
          /\ u.hashed_password = HashPassword("right", "salt")

----------------------------------------------------------------------------
(* Properties of the protected operations, checked under SpecAPI           *)

ProtectedOps == {"update user", "create chirp", "delete chirp"}

\* a protected request is answered in this step
ProtectedStep == resp' # resp /\ resp'.op \in ProtectedOps

\* the request got as far as the extraction of the bearer token (a delete
\* with an unparsable chirp id is answered 400 before that)
ReachesAuth(r) == r.op = "delete chirp" => UUIDParse(r.id).err = "nil"

\* bearer extraction, or the verification of the extracted token, fails
AuthFails(header, t) ==
    \/ GetBearerToken(header).err # "nil"
    \/ ValidateBearer(GetBearerToken(header).token, JWTSecret, t).err # "nil"

\* C16: a protected request (create chirp, delete chirp, update user) for
\* which bearer extraction or ValidateJWT fails is answered 401 and leaves
\* the chirps and users tables as they were.
C16_VerifyBeforeStorage ==
    [][(ProtectedStep /\ ReachesAuth(resp') /\ AuthFails(resp'.req, now))
          => (/\ resp'.out.status = 401
              /\ chirps' = chirps
              /\ users' = users)]_vars

\* a delete without a credential, of a chirp that is there
C16_Witness ==
    /\ resp.op = "delete chirp"
    /\ resp.req = <<"">>
    /\ UUIDParse(resp.id).err = "nil"
    /\ HasChirp(chirps, UUIDParse(resp.id).id)
    /\ resp.out.status = 401

\* the token a header carries, <<>> when it carries none
BearerJWT(header) ==
    IF GetBearerToken(header).err = "nil"
    THEN DecodeJWT(GetBearerToken(header).token)
    ELSE <<>>

\* the header carries an access token signed with the server's secret that
\* is within its lifetime at t
Authentic(header, t) ==
    /\ BearerJWT(header) # <<>>
    /\ HS256Verify(SigningString(BearerJWT(header)[1].claims),
                   BearerJWT(header)[1].sig, JWTSecret)
    /\ ValidateClaims(BearerJWT(header)[1].claims, t) = "nil"

\* the user such a token was issued to
Requester(header) == UUIDParse(BearerJWT(header)[1].claims.Subject).id

\* C17: a delete request removes a chirp only when its authenticated user
\* is the owner of the chirp, and a delete request of an authenticated user
\* who does not own the chirp, which exists, is answered 403 and leaves the
\* chirp in the table.
C17_OnlyOwnerDeletes ==
    [][\A c \in chirps :
          (/\ ProtectedStep
           /\ resp'.op = "delete chirp"
           /\ UUIDParse(resp'.id) = [id |-> c.id, err |-> "nil"])
          => (/\ c \notin chirps'
                   => (/\ Authentic(resp'.req, now)
                       /\ Requester(resp'.req) = c.user_id)
              /\ (Authentic(resp'.req, now) /\ Requester(resp'.req) # c.user_id)
                   => (resp'.out.status = 403 /\ c \in chirps'))]_vars

\* the user the token was issued to is gone, or a refresh token of that
\* user is revoked
StoreMovedOn(header) ==
    \/ /\ Requester(header) <= fresh.uuid
       /\ ~HasUserID(users, Requester(header))
    \/ \E r \in refresh_tokens :
          r.user_id = Requester(header) /\ r.revoked_at.Valid

\* C18: what the store holds does not enter into the verification of an
\* access token: a protected request that carries an unexpired token signed
\* with the server's secret is not turned away as unauthorized, also after
\* the user's refresh token was revoked and after the user was deleted.
C18_VerificationIgnoresStore ==
    [][(/\ ProtectedStep
        /\ ReachesAuth(resp')
        /\ Authentic(resp'.req, now)
        /\ StoreMovedOn(resp'.req))
          => resp'.out.status # 401]_vars

----------------------------------------------------------------------------
(* Properties of GetAPIKey, checked under SpecAPIKey                       *)

KeyCalled == keyIn # <<>> /\ keyRes # <<>>

\* the value of the Authorization header the call was made with
KeyValue == HeaderGet(keyIn[1])

NoSpace(word) == \A i \in 1..Len(word) : word[i] # " "

\* the value is the word ApiKey, one space, and a word without a space
\* (which may be empty)
ApiKeyShaped(value) ==
    /\ Len(value) >= Len(ApiKeyScheme) + 1
    /\ SubSeq(value, 1, Len(ApiKeyScheme) + 1) = ApiKeyScheme \o <<" ">>
    /\ NoSpace(SubSeq(value, Len(ApiKeyScheme) + 2, Len(value)))

\* the word after the scheme and the space
KeyToken(value) == SubSeq(value, Len(ApiKeyScheme) + 2, Len(value))

\* key is the token without the white space around it
Stripped(token, key) ==
    \E i \in 1..(Len(token) + 1), j \in 0..Len(token) :
        /\ key = SubSeq(token, i, j)
        /\ \A m \in 1..(i - 1) : token[m] \in WhiteSpace
        /\ \A m \in (j + 1)..Len(token) : token[m] \in WhiteSpace
        /\ key # <<>> => (key[1] \notin WhiteSpace /\ key[Len(key)] \notin WhiteSpace)

\* C19: GetAPIKey returns the key token when the value is ApiKey, one
\* space and one key token; it fails with the missing-header error when
\* there is no Authorization header and with the format error for any
\* other scheme word and any other number of space-separated words.
C19_APIKeyShape ==
    KeyCalled =>
        (/\ keyIn[1] = <<>> => keyRes[1].err = "missing authorization header"
         /\ (ApiKeyShaped(KeyValue) /\ KeyToken(KeyValue) # <<>>)
               => (/\ keyRes[1].err = "nil"
                   /\ Stripped(KeyToken(KeyValue), keyRes[1].key))
         /\ (KeyValue # <<>> /\ ~ApiKeyShaped(KeyValue))
               => keyRes[1].err = "invalid authorization header format")

C19_Witness ==
    /\ KeyCalled
    /\ KeyValue = ApiKeyScheme \o <<" ", "k">>
    /\ keyRes[1] = [key |-> <<"k">>, err |-> "nil"]

\* C20: GetAPIKey fails with the format error when the value is ApiKey
\* followed by a space and an empty key, and a call that succeeds never
\* returns the empty string.
C20_EmptyKeyRejected ==
    KeyCalled =>
        (/\ KeyValue = ApiKeyScheme \o <<" ">>
               => keyRes[1].err = "invalid authorization header format"
         /\ keyRes[1].err = "nil" => keyRes[1].key # <<>>)

----------------------------------------------------------------------------
(* Properties of the handlers when calls fail, checked under SpecFaults    *)

\* the storage calls of login's user lookup, of refresh's owner and row
\* lookups and of revoke's update
StorageLookups ==
    {"GetUserByEmail", "GetUserFromRefreshToken", "GetRefreshToken",
     "RevokeRefreshToken"}

\* C22: a login, refresh or revoke in which one of these storage calls
\* fails for a reason other than a missing row is answered 500, not 401,
\* carries no token and leaves the refresh_tokens table as it was.
C22_StorageFailureIsServerError ==
    [][(resp' # resp /\ resp'.op \in {"login", "refresh", "revoke"}
          /\ resp'.failing \in StorageLookups)
          => (/\ resp'.out.status = 500
              /\ DOMAIN resp'.out.body \cap TokenFields = {}
              /\ refresh_tokens' = refresh_tokens)]_vars

\* the row a step adds to the refresh_tokens table
NewRows == {r \in refresh_tokens' : ~HasRefreshToken(refresh_tokens, r.token)}

\* C27: a refresh-token row is created only by a login whose password
\* check succeeded, its owner is the user who logged in, and a login that
\* is answered with an error returns no token and leaves the table as it
\* was.
C27_LoginAllOrNothing ==
    [][/\ \A r \in NewRows : \E w \in Workers :
            /\ reqs[w].pc = "login"
            /\ reqs'[w].pc = "idle"
            /\ resp'.op = "login"
            /\ resp'.out.status = 200
            /\ resp'.req = reqs[w].body
            /\ resp'.out.body.refresh_token = r.token
            /\ r.user_id = reqs[w].user.id
            /\ r.user_id = resp'.out.body.id
            /\ HasUserID(users, r.user_id)
       /\ \A w \in Workers :
            (reqs[w].pc = "idle" /\ reqs'[w].pc = "login")
                => (/\ HasUser(users, reqs'[w].body.Email)
                    /\ reqs'[w].user =
                           GetUserByEmail(users, reqs'[w].body.Email)
                    /\ CheckPasswordHash(reqs'[w].body.Password,
                                         reqs'[w].user.hashed_password))
       /\ (resp' # resp /\ resp'.op = "login" /\ resp'.out.status # 200)
            => (/\ DOMAIN resp'.out.body \cap TokenFields = {}
                /\ refresh_tokens' = refresh_tokens)]_vars

\* a login overtaken by a reset between its user lookup and its insert,
\* which the foreign key turned down: no row, no token
C27_Witness ==
    /\ resp.op = "login"
    /\ resp.failing = "none"
    /\ resp.out.status = 500
    /\ resp.cause = "store"
    /\ ~HasUser(users, resp.req.Email)
    /\ refresh_tokens = {}
    /\ fresh.token = 0

\* the delete of a reset goes through in this step
ResetDeletes == reqs["admin"].pc = "idle" /\ reqs'["admin"].pc = "reset"

\* C30: a reset on a platform other than dev is answered 403 and changes
\* nothing; a reset whose delete fails is answered 500 and leaves the hit
\* counter as it was; the counter goes back to 0 only in a reset whose
\* delete went through, which is answered 200.
C30_ResetGatedAndAtomic ==
    [][/\ (resp'.op = "reset" /\ resp' # resp)
            => (/\ platform # "dev"
                     => (/\ resp'.out.status = 403
                         /\ UNCHANGED <<users, refresh_tokens, chirps,
                                        fileserverHits>>)
                /\ (platform = "dev" /\ resp'.failing = "DeleteAllUsers")
                     => (/\ resp'.out.status = 500
                         /\ UNCHANGED <<users, fileserverHits>>)
                /\ (platform = "dev" /\ resp'.failing = "none")
                     => (/\ resp'.out.status = 200
                         /\ reqs["admin"].pc = "reset"
                         /\ fileserverHits' = 0))
       /\ ResetDeletes
            => (/\ platform = "dev"
                /\ users' = {}
                /\ UNCHANGED <<resp, fileserverHits>>)
       /\ (fileserverHits # 0 /\ fileserverHits' = 0)
            => (/\ reqs["admin"].pc = "reset"
                /\ resp'.op = "reset"
                /\ resp'.out.status = 200)]_vars

\* a reset whose delete failed: the users and the count are still there
C30_Witness ==
    /\ resp.op = "reset"
    /\ resp.failing = "DeleteAllUsers"
    /\ resp.out.status = 500
    /\ platform = "dev"
    /\ users # {}
    /\ fileserverHits > 0

----------------------------------------------------------------------------
(* Properties of the sessions, checked under SpecTokens                    *)

\* C23: the access token a refresh answers with has as subject the owner of
\* the refresh token presented and expires one hour after it was issued,
\* whatever lifetime the login that created the refresh token asked for.
C23_RefreshMintsForOwnerOneHour ==
    [][\A w \in Workers :
          (RefreshAnswers(w) /\ Minted) =>
              (/\ HasRefreshToken(refresh_tokens, reqs[w].refreshToken)
               /\ resp'.out.body.token.claims.Subject =
                      UUIDString(GetRefreshToken(refresh_tokens,
                                                 reqs[w].refreshToken).user_id)
               /\ resp'.out.body.token.claims.IssuedAt =
                      NewNumericDate(resp'.clock[2])
               /\ resp'.out.body.token.claims.ExpiresAt =
                      TimeAdd(resp'.out.body.token.claims.IssuedAt, Hour))]_vars

----------------------------------------------------------------------------
(* Properties of revoke among several sessions, checked under SpecRevoke   *)

\* the token a revoke request presented, "" when it presented none
Presented(header) == GetBearerToken(header).token

\* C28: a revoke changes the revoked_at and updated_at of the row of the
\* presented token and nothing else: that row keeps its token, owner,
\* creation time and expiry, every other row is as it was and as usable
\* as it was, no row is added, and the users and chirps tables are as
\* they were.
C28_RevokeTouchesOneRow ==
    [][RevokeStep =>
          (/\ \A r \in refresh_tokens :
                 IF r.token = Presented(resp'.req)
                 THEN Kept(r)
                 ELSE /\ r \in refresh_tokens'
                      /\ Usable(refresh_tokens', r.token, now)
                            <=> Usable(refresh_tokens, r.token, now)
           /\ \A q \in refresh_tokens' : HasRefreshToken(refresh_tokens, q.token)
           /\ users' = users
           /\ chirps' = chirps)]_vars

\* a session of the first user revoked, time passing between the two clock
\* reads of the revoke, while the session that user opened thirty days
\* before the start is still usable
C28_Witness ==
    /\ resp.op = "revoke"
    /\ resp.out.status = 204
    /\ Presented(resp.req) # StoredToken
    /\ HasRefreshToken(refresh_tokens, Presented(resp.req))
    /\ GetRefreshToken(refresh_tokens, Presented(resp.req)).user_id = 1
    /\ GetRefreshToken(refresh_tokens, Presented(resp.req)).revoked_at.Valid
    /\ TimeBefore(
           GetRefreshToken(refresh_tokens, Presented(resp.req)).revoked_at.Time,
           GetRefreshToken(refresh_tokens, Presented(resp.req)).updated_at)
    /\ Usable(refresh_tokens, StoredToken, now)
    /\ GetRefreshToken(refresh_tokens, StoredToken).user_id = 1

----------------------------------------------------------------------------
(* Properties of a session from login to the protected operations,         *)
(* checked under SpecAPI                                                   *)

\* the request answered in this step carries the access token that the
\* login answered just before it returned, within the token's lifetime
CarriesLoginToken ==
    /\ resp.op = "login"
    /\ resp.out.status = 200
    /\ ProtectedStep
    /\ ReachesAuth(resp')
    /\ resp'.req = <<"Bearer", TokenBytes(resp.out.body.token)>>
    /\ TimeBefore(now, resp.out.body.token.claims.ExpiresAt)

\* C24: a protected request (create chirp, delete chirp, update user) that
\* carries the access token a login has returned, before the token
\* expires, is not turned away as unauthorized, and what it writes it
\* writes as the user who logged in.
C24_LoginTokenAccepted ==
    [][CarriesLoginToken =>
          (/\ resp'.out.status # 401
           /\ resp'.cause \notin {"bearer", "jwt"}
           /\ \A c \in chirps' \ chirps : c.user_id = resp.out.body.id
           /\ \A c \in chirps \ chirps' : c.user_id = resp.out.body.id
           /\ \A u \in users \ users' : u.id = resp.out.body.id)]_vars

----------------------------------------------------------------------------
(* Properties of the stored passwords, checked under SpecPassword          *)

\* the stored hash verifies password and none of the other passwords
VerifiesOnly(hash, password) ==
    \A p \in PasswordsTried : CheckPasswordHash(p, hash) <=> p = password

\* a registration, or a user update, that went through in this step
Registered == resp' # resp /\ resp'.op = "register" /\ resp'.out.status = 201

Updated == resp' # resp /\ resp'.op = "update user" /\ resp'.out.status = 200

\* C25: the hash stored for a user verifies the password of the
\* registration, or of the latest user update that went through, and no
\* other; no other step changes a stored hash; and a login is answered 200
\* exactly when a user with the email exists and the password is verified
\* by the hash stored for that user.
C25_LoginIffStoredPassword ==
    [][/\ Registered =>
            \E u \in users' \ users :
                /\ u.email = resp'.req.Email
                /\ VerifiesOnly(u.hashed_password, resp'.req.Password)
                /\ users' = users \cup {u}
       /\ Updated =>
            \E u \in users' :
                /\ u.id = resp'.out.body.id
                /\ VerifiesOnly(u.hashed_password, resp'.body.Password)
       /\ ~Updated =>
            \A u \in users : \E v \in users' :
                v.id = u.id /\ v.hashed_password = u.hashed_password
       /\ (resp' # resp /\ resp'.op = "login") =>
            (resp'.out.status = 200
               <=> \E u \in users :
                      /\ u.email = resp'.req.Email
                      /\ VerifiesOnly(u.hashed_password,
                                      resp'.req.Password))]_vars

\* a login with the password of the second registration, which differs
\* from the password of the first
C25_Witness ==
    /\ resp.op = "login"
    /\ resp.out.status = 200
    /\ \E u \in users, v \in users :
          /\ u.email = resp.req.Email
          /\ u.id = 2
          /\ v.id = 1
          /\ CheckPasswordHash(resp.req.Password, u.hashed_password)
          /\ ~CheckPasswordHash(resp.req.Password, v.hashed_password)

----------------------------------------------------------------------------
(* Properties of the webhook, checked under SpecWebhook                    *)

\* a webhook request is answered in this step
WebhookStep == resp' # resp /\ resp'.op = "webhook"

\* the request carries the configured key under the ApiKey scheme
CarriesPolkaKey(headers) ==
    /\ headers # <<>>
    /\ ApiKeyShaped(HeaderGet(headers))
    /\ KeyToken(HeaderGet(headers)) = PolkaKey

\* C29: the is_chirpy_red of a user is set only by a POST webhook request
\* that carries the configured key under the ApiKey scheme and has event
\* user.upgraded, for that user; a new row has it unset; a POST without the
\* key, with a malformed credential or with another key is answered 401
\* and changes nothing; a POST with the key and another event is answered
\* 204 and changes nothing.
C29_UpgradeOnlyByKeyedWebhook ==
    [][/\ \A u \in users, v \in users' :
            (v.id = u.id /\ ~u.is_chirpy_red /\ v.is_chirpy_red)
                => (/\ resp'.op = "webhook"
                    /\ resp'.method = "POST"
                    /\ CarriesPolkaKey(resp'.headers)
                    /\ resp'.payload.Event = "user.upgraded"
                    /\ resp'.payload.UserID = u.id)
       /\ \A v \in users' : ~HasUserID(users, v.id) => ~v.is_chirpy_red
       /\ (WebhookStep /\ resp'.method = "POST"
              /\ ~CarriesPolkaKey(resp'.headers))
            => (/\ resp'.out.status = 401
                /\ UNCHANGED <<users, refresh_tokens, chirps>>)
       /\ (WebhookStep /\ resp'.method = "POST"
              /\ CarriesPolkaKey(resp'.headers)
              /\ resp'.failing # "Decode"
              /\ resp'.payload.Event # "user.upgraded")
            => (/\ resp'.out.status = 204
                /\ UNCHANGED <<users, refresh_tokens, chirps>>)]_vars

\* the second user upgraded by a webhook request, the first not
C29_Witness ==
    /\ resp.op = "webhook"
    /\ resp.out.status = 204
    /\ resp.payload = [Event |-> "user.upgraded", UserID |-> 2]
    /\ \E u \in users, v \in users :
          /\ u.id = 1 /\ ~u.is_chirpy_red
          /\ v.id = 2 /\ v.is_chirpy_red

====
